---- MODULE Spec2Model ----
(***************************************************************************)
(* Model of guillotina's PostgreSQL object storage (db/storages/pg.py),    *)
(* its vacuum worker, the two-tier cache utility (contrib/cache/utility.py)*)
(* and the pubsub relay (contrib/pubsub/utility.py).                       *)
(*                                                                         *)
(* Spec      : transactions storing / deleting objects and the vacuum      *)
(*             worker, over a READ COMMITTED table with row locks.         *)
(* SpecCache : two processes, each with a CacheUtility and a PubSubUtility,*)
(*             sharing one remote cache driver and one pubsub channel.     *)
(***************************************************************************)
EXTENDS Integers, Sequences, FiniteSets, TLC

\* Python None / SQL NULL in a string-valued column
None == "None"
\* obj.__serial__ is None (no tid was ever observed); differs from every tid
NoSerial == -2
\* no row with this zoid
NoRow == [absent |-> TRUE]
\* the transaction wrote no version of this row
Untouched == [untouched |-> TRUE]

\* ---------------------------------------------------------------- bounds
\* the tid sequence stops handing out tids at MaxTid
MaxTid == 3
\* the vacuum queue (unbounded in the code) holds at most MaxQueue items
MaxQueue == 2

\* ------------------------------------------------------- finite universes
TRASHED_ID == "TRASH"
ROOT == "root"
OIDs == {"root", "o1", "o2"}
AllOids == OIDs \cup {TRASHED_ID}
Names == {"x", "y"}
Txns == {"t1", "t2"}
\* the objects the transactions store, load and delete (ROOT is a container
\* that is already there)
Stored == OIDs \ {ROOT}
\* writer.serialize(): the pickled state written by the transaction with
\* this tid
Pickled(tid) == <<"state", tid>>

\* ---------------------------------------------------------------- state
VARIABLES
    objects,        \* committed rows of the objects table: zoid -> row | NoRow
    tid_sequence,   \* last_value of tid_sequence
    txn_status,     \* "none" | "active" (begun) | "written" (its store or
                    \* delete statement ran) | "failed" (statement error)
    txn_tid,        \* txn._tid
    txn_writes,     \* uncommitted row versions written by the db transaction
    txn_serial,     \* obj.__serial__ of the objects the transaction loaded
    txn_modified,   \* txn.modified: <<oid, serial>> of the objects it updated
    txn_hooks,      \* after-commit hooks registered by delete (oids, in order)
    autovacuum,     \* PostgresqlStorage._autovacuum (constructor option)
    vq,             \* PGVacuum._queue
    vacuum_cur,     \* item the consumer loop took from the queue, or None
    vac_pc,         \* PostgresqlStorage.vacuum(): "idle" | "polling"
    vac_snapshot,   \* rows that were tombstoned when vacuum() was called
    ret,            \* outcome of the operation that has just completed
    memory_cache,   \* per process: CacheUtility._memory_cache, key -> value
    remote,         \* the shared remote cache tier: driver key -> bytes
    obj_driver,     \* CacheUtility._obj_driver is not None
    ignored_tids,   \* per process: CacheUtility._ignored_tids
    subscribers,    \* per process: PubSubUtility._subscribers[channel]
    relay,          \* per process: PubSubUtility._tasks[channel] state
    inbox,          \* per process: messages its channel stream holds
    blob_rows,      \* rows of the blobs table, in heap order
    blob_xact,      \* per row of blob_rows: the open transaction that
                    \* inserted it, None once that has committed
    pool_gen,       \* which pool / read connection the manager holds
    stmt_gen,       \* the read connection _stmt_next_tid/_stmt_max_tid
                    \* were prepared on
    conn_ok,        \* the connections of the current pool are alive
    delay_elapsed,  \* time.time() - _connection_initialized_on >
                    \* BAD_CONNECTION_RESTART_DELAY
    drawn,          \* values get_next_tid returned, in order
    cf_table,       \* conflict scan: committed objects rows, zoid -> tid
    cf_tid,         \* conflict scan: txn._tid of the calling transaction
    cf_modified,    \* conflict scan: the keys of txn.modified
    ps_chans,       \* PubSubUtility: the keys of _subscribers
    ps_subs,        \* PubSubUtility: _subscribers[channel], rids in dict
                    \* order
    ps_tasks,       \* PubSubUtility: _tasks[channel], a task id or 0
    ps_task,        \* the relay tasks ever created: channel and state
    ps_driver,      \* the channels subscribed on the driver
    ps_pending,     \* channels with an unsubscribe() suspended at
                    \* `await self._driver.unsubscribe(channel_name)`
    pv_queue,       \* PGVacuum life cycle: the items of _queue
    pv_unfinished,  \* asyncio.Queue._unfinished_tasks of _queue
    pv_closed,      \* PGVacuum._closed
    pv_loop,        \* the consumer task: "get" (at queue.get) | "shield"
                    \* (awaiting the shielded vacuum) | "ended"
    pv_inner,       \* oid the shielded vacuum(oid) is deleting, or None
    pv_fin,         \* PGConnectionManager.close(): "idle" | "joining"
                    \* (in finalize) | "returned" | "cancelled" | "closed"
    pv_timeout,     \* the 2 s of wait_for in finalize have elapsed
    pv_pool,        \* "open" | "terminated"
    pv_table,       \* the tombstoned rows of the objects table
    lk_holder,      \* per transaction: the caller holding txn._lock, or None
    lk_call,        \* per transaction and caller: the storage operation it
                    \* runs and where it is ("idle" | "waiting" for the
                    \* lock | "querying" on the connection)
    rc_task,        \* per concurrent operation: "idle" | "queued" (in
                    \* _check_bad_connection, waiting for the storage lock)
                    \* | "restarting" (in restart_connection)
    rc_lock,        \* the operation holding the storage lock, or None
    fu_ctx,         \* task_vars.futures of the running task is a dict
    fu_keys,        \* the scopes that are keys of that dict
    fu_reg,         \* per scope: futures[scope], the (name, fut) items in
                    \* dict order
    fu_cb,          \* execute_futures is a done callback of the task
    fu_started,     \* per registered function: how often it was started
    fu_count,       \* the number of registrations made so far
    fu_task         \* the task: "running" | "done"

storeVars == <<objects, tid_sequence, txn_status, txn_tid, txn_writes,
               txn_serial, txn_modified, txn_hooks, autovacuum, vq,
               vacuum_cur, vac_pc, vac_snapshot>>

cacheVars == <<memory_cache, remote, obj_driver, ignored_tids, subscribers,
               relay, inbox>>

blobVars == <<blob_rows, blob_xact>>

connVars == <<pool_gen, stmt_gen, conn_ok, delay_elapsed, drawn>>

conflictVars == <<cf_table, cf_tid, cf_modified>>

pubsubVars == <<ps_chans, ps_subs, ps_tasks, ps_task, ps_driver, ps_pending>>

lifeVars == <<pv_queue, pv_unfinished, pv_closed, pv_loop, pv_inner, pv_fin,
              pv_timeout, pv_pool, pv_table>>

lockVars == <<lk_holder, lk_call>>

reconnVars == <<rc_task, rc_lock>>

futVars == <<fu_ctx, fu_keys, fu_reg, fu_cb, fu_started, fu_count, fu_task>>

extraVars == <<lifeVars, lockVars, reconnVars, futVars>>

restVars == <<blobVars, connVars, conflictVars, pubsubVars, extraVars>>

vars == <<storeVars, cacheVars, restVars, ret>>

NoRet == [op |-> "none"]

\* a row of the objects table (columns the operations below read or write)
MkRow(tid, parent_id, id, state) ==
    [tid |-> tid, parent_id |-> parent_id, id |-> id, state |-> state,
     of |-> None]

\* CREATE_TRASH: the reserved sentinel row
TrashRow == MkRow(0, None, None, None)

IsRow(r) == r # NoRow /\ r # Untouched

\* what a statement of transaction t sees: its own uncommitted row versions
\* over the committed table (READ COMMITTED)
View(t) ==
    [o \in AllOids |->
        IF txn_writes[t][o] # Untouched THEN txn_writes[t][o] ELSE objects[o]]

NoWrites == [o \in AllOids |-> Untouched]


\* ------------------------------------------------------------ SQL layer
\* register_sql('UPDATE'): NAIVE_UPDATE + " AND tid = $7::int"; the number
\* of rows the statement affects ($1 = oid, $7 = old_serial)
UPDATE_unchecked(view, oid, otid) ==
    IF IsRow(view[oid]) THEN 1 ELSE 0

UPDATE(view, oid, otid) ==
    IF IsRow(view[oid]) /\ view[oid].tid = otid THEN 1 ELSE 0

\* register_sql('NAIVE_UPSERT'): INSERT ... ON CONFLICT (zoid) DO UPDATE,
\* with no tid condition: always one row
NAIVE_UPSERT(view, oid, otid) == 1

\* CHECK (parent_id != zoid)
CheckViolation(oid, r) == r.parent_id = oid

UniqueViolation_noindex(view, oid, r) == FALSE

\* UNIQUE INDEX (parent_id, id) WHERE parent_id != TRASHED_ID
\* (NULL parent_id or NULL id never collide)
UniqueViolation(view, oid, r) ==
    /\ r.parent_id # None
    /\ r.parent_id # TRASHED_ID
    /\ r.id # None
    /\ \E o2 \in AllOids \ {oid} :
          /\ IsRow(view[o2])
          /\ view[o2].parent_id = r.parent_id
          /\ view[o2].id = r.id

\* _object_schema: the columns `of` and parent_id are declared REFERENCES
\* objects ON DELETE CASCADE; the rows a row refers to (NULL refers to none)
References_parent_only(r) == {r.parent_id} \ {None}

References(r) == {r.parent_id, r.of} \ {None}

\* a row refers to a row that does not exist
ForeignKeyViolation(view, r) ==
    \E p \in References(r) : ~IsRow(view[p])

\* rows removed by ON DELETE CASCADE when the rows of S are deleted
RECURSIVE Cascade(_, _)
Cascade(tbl, S) ==
    LET kids == {o \in AllOids : /\ IsRow(tbl[o])
                                 /\ References(tbl[o]) \cap S # {}}
    IN  IF kids \subseteq S THEN S ELSE Cascade(tbl, S \cup kids)

\* register_sql('DELETE_OBJECT'): DELETE FROM objects WHERE zoid = $1
DELETE_OBJECT(tbl, oid) ==
    IF IsRow(tbl[oid])
    THEN [o \in AllOids |-> IF o \in Cascade(tbl, {oid}) THEN NoRow ELSE tbl[o]]
    ELSE tbl

\* _blob_schema: zoid REFERENCES objects ON DELETE CASCADE; the positions
\* of the blob rows that stay when DELETE_OBJECT removes the row of oid
BlobsKept(tbl, rows, oid) ==
    {i \in DOMAIN rows :
        ~(IsRow(tbl[oid]) /\ rows[i].zoid \in Cascade(tbl, {oid}))}

TRASH_PARENT_ID_noop(row) == row

\* register_sql('TRASH_PARENT_ID'): UPDATE SET parent_id = TRASHED_ID
TRASH_PARENT_ID(row) ==
    IF IsRow(row) THEN [row EXCEPT !.parent_id = TRASHED_ID] ELSE row

\* register_sql('GET_TRASHED_OBJECTS')
GET_TRASHED_OBJECTS(tbl) ==
    {o \in AllOids : IsRow(tbl[o]) /\ tbl[o].parent_id = TRASHED_ID}

\* register_sql('GET_CHILD'): the zoids matching (parent_id, id)
GET_CHILD(view, parent_oid, id) ==
    {o \in AllOids : IsRow(view[o]) /\ parent_oid # None
                                    /\ view[o].parent_id = parent_oid
                                    /\ view[o].id = id}

\* register_sql('GET_CHILDREN_KEYS') / keys(): ids of the children
GET_CHILDREN_KEYS(view, parent_oid) ==
    {view[o].id : o \in {c \in AllOids : IsRow(view[c])
                                         /\ parent_oid # None
                                         /\ view[c].parent_id = parent_oid}}

\* register_sql('GET_CHILDREN') / items(): the children rows, by zoid
GET_CHILDREN(view, parent_oid) ==
    {o \in AllOids : IsRow(view[o]) /\ parent_oid # None
                                    /\ view[o].parent_id = parent_oid}

\* register_sql('GET_CHILDREN_BATCH') / get_children()
GET_CHILDREN_BATCH(view, parent_oid, ids) ==
    {o \in AllOids : IsRow(view[o]) /\ parent_oid # None
                                    /\ view[o].parent_id = parent_oid
                                    /\ view[o].id \in ids}

\* the elements of seq at the positions in idx, in order
Pick(seq, idx) ==
    LET F[i \in 0 .. Len(seq)] ==
            IF i = 0 THEN <<>>
            ELSE IF i \in idx THEN Append(F[i - 1], seq[i]) ELSE F[i - 1]
    IN  F[Len(seq)]

\* row lock held by another open db transaction (released at commit/rollback)
Locked(t, o) ==
    \E u \in Txns \ {t} : txn_status[u] # "none" /\ txn_writes[u][o] # Untouched

\* the statement of t writing row r at oid has to wait for another transaction
Blocked(t, oid, r) ==
    \/ Locked(t, oid)
    \/ /\ r.parent_id \notin {None, TRASHED_ID}
       /\ \E o2 \in AllOids \ {oid}, u \in Txns \ {t} :
             /\ txn_status[u] # "none"
             /\ txn_writes[u][o2] # Untouched
             /\ \/ /\ IsRow(txn_writes[u][o2])
                   /\ txn_writes[u][o2].parent_id = r.parent_id
                   /\ txn_writes[u][o2].id = r.id
                \/ /\ IsRow(objects[o2])
                   /\ objects[o2].parent_id = r.parent_id
                   /\ objects[o2].id = r.id
    \/ \E p \in References(r) : Locked(t, p)

\* ------------------------------------------------ PostgresqlStorage.store
\* store(): update = not obj.__new_marker__ and obj.__serial__ is not None
IsUpdate(new_marker, serial) == ~new_marker /\ serial # NoSerial

Affected_upsert(update, view, oid, old_serial) ==
    NAIVE_UPSERT(view, oid, old_serial)

\* rows affected by the statement store() picks
Affected(update, view, oid, old_serial) ==
    IF update THEN UPDATE(view, oid, old_serial)
              ELSE NAIVE_UPSERT(view, oid, old_serial)

\* what the database does with the statement
StoreOutcome(count, view, oid, r) ==
    IF count # 1 THEN "count0"
    ELSE IF CheckViolation(oid, r) THEN "check"
    ELSE IF UniqueViolation(view, oid, r) THEN "unique"
    ELSE IF ForeignKeyViolation(view, r) THEN "fk"
    ELSE "ok"

\* except UniqueViolationError: 'Key (parent_id, id)' in ex.detail
OnUniqueViolation == "ConflictIdOnContainer"

\* except ForeignKeyViolationError
OnForeignKeyViolation_distinct == "ConflictError"

OnForeignKeyViolation == "TIDConflictError"

\* len(result) != 1 or result[0]['count'] != 1, for an update
OnCountMismatch == "TIDConflictError"

\* the exception store() raises, or None
StoreError(update, outcome) ==
    CASE outcome = "unique" -> OnUniqueViolation
      [] outcome = "fk"     -> OnForeignKeyViolation
      [] outcome = "check"  -> "CheckViolationError"
      [] outcome = "count0" -> IF update THEN OnCountMismatch ELSE None
      [] OTHER              -> None

Store(t, oid, new_marker, parent_id, id, of) ==
    /\ txn_status[t] = "active"
    /\ new_marker => txn_serial[t][oid] = NoSerial
    /\ LET old_serial == txn_serial[t][oid]
           update == IsUpdate(new_marker, old_serial)
           view == View(t)
           r == [MkRow(txn_tid[t], parent_id, id, Pickled(txn_tid[t]))
                    EXCEPT !.of = of]
           count == Affected(update, view, oid, old_serial)
           outcome == StoreOutcome(count, view, oid, r)
       IN  /\ ~Blocked(t, oid, r)
           /\ txn_writes' = IF outcome = "ok"
                            THEN [txn_writes EXCEPT ![t][oid] = r]
                            ELSE txn_writes
           /\ txn_modified' = IF outcome = "ok" /\ update
                              THEN [txn_modified EXCEPT
                                      ![t] = @ \cup {<<oid, old_serial>>}]
                              ELSE txn_modified
           \* a statement error leaves the db transaction aborted
           /\ txn_status' = IF outcome \in {"check", "unique", "fk"}
                            THEN [txn_status EXCEPT ![t] = "failed"]
                            ELSE [txn_status EXCEPT ![t] = "written"]
           /\ ret' = [op |-> "store", txn |-> t, oid |-> oid,
                      old_serial |-> old_serial, update |-> update,
                      before |-> view[oid], row |-> r, outcome |-> outcome,
                      err |-> StoreError(update, outcome)]
    /\ UNCHANGED <<autovacuum, objects, tid_sequence, txn_tid, txn_serial, txn_hooks,
                   vq, vacuum_cur, vac_pc, vac_snapshot>>
    /\ UNCHANGED <<cacheVars, restVars>>

\* --------------------------------------------- transaction life cycle
\* get_next_tid (NEXT_TID) and start_transaction
Begin(t) ==
    /\ txn_status[t] = "none"
    /\ tid_sequence < MaxTid
    /\ tid_sequence' = tid_sequence + 1
    /\ txn_tid' = [txn_tid EXCEPT ![t] = tid_sequence + 1]
    /\ txn_status' = [txn_status EXCEPT ![t] = "active"]
    /\ ret' = NoRet
    /\ UNCHANGED <<autovacuum, objects, txn_writes, txn_serial, txn_modified, txn_hooks,
                   vq, vacuum_cur, vac_pc, vac_snapshot>>
    /\ UNCHANGED <<cacheVars, restVars>>

\* load(): GET_OID; the loaded object carries the row's tid as __serial__
Load(t, oid) ==
    /\ txn_status[t] = "active"
    /\ IsRow(View(t)[oid])
    /\ txn_serial' = [txn_serial EXCEPT ![t][oid] = View(t)[oid].tid]
    /\ ret' = NoRet
    /\ UNCHANGED <<autovacuum, objects, tid_sequence, txn_status, txn_tid, txn_writes,
                   txn_modified, txn_hooks, vq, vacuum_cur,
                   vac_pc, vac_snapshot>>
    /\ UNCHANGED <<cacheVars, restVars>>

\* delete(): txn.add_after_commit_hook(self._txn_oid_commit_hook, oid)
add_after_commit_hook_dropped(hooks, oid) == hooks

add_after_commit_hook(hooks, oid) == Append(hooks, oid)

\* delete(): TRASH_PARENT_ID, then the after-commit hook when autovacuum
Delete(t, oid) ==
    /\ txn_status[t] = "active"
    /\ ~Locked(t, oid)
    /\ txn_writes' = IF IsRow(View(t)[oid])
                     THEN [txn_writes EXCEPT
                             ![t][oid] = TRASH_PARENT_ID(View(t)[oid])]
                     ELSE txn_writes
    /\ txn_hooks' = IF autovacuum
                    THEN [txn_hooks EXCEPT
                            ![t] = add_after_commit_hook(@, oid)]
                    ELSE txn_hooks
    /\ txn_status' = [txn_status EXCEPT ![t] = "written"]
    /\ ret' = [op |-> "delete", txn |-> t, oid |-> oid,
               before |-> View(t)[oid]]
    /\ UNCHANGED <<autovacuum, objects, tid_sequence, txn_tid, txn_serial,
                   txn_modified, vq, vacuum_cur, vac_pc,
                   vac_snapshot>>
    /\ UNCHANGED <<cacheVars, restVars>>

EndTxn(t) ==
    /\ txn_status' = [txn_status EXCEPT ![t] = "none"]
    /\ txn_tid' = [txn_tid EXCEPT ![t] = 0]
    /\ txn_writes' = [txn_writes EXCEPT ![t] = NoWrites]
    /\ txn_serial' = [txn_serial EXCEPT ![t] = [o \in OIDs |-> NoSerial]]
    /\ txn_modified' = [txn_modified EXCEPT ![t] = {}]
    /\ txn_hooks' = [txn_hooks EXCEPT ![t] = <<>>]

\* commit(): the db transaction commits, then the after-commit hooks run
\* (_txn_oid_commit_hook -> PGVacuum.add_to_queue)
Commit(t) ==
    /\ txn_status[t] \in {"active", "written"}
    /\ Len(vq) + Len(txn_hooks[t]) <= MaxQueue
    /\ objects' = View(t)
    /\ vq' = vq \o txn_hooks[t]
    /\ EndTxn(t)
    /\ ret' = [op |-> "commit", txn |-> t,
               lost |-> {m \in txn_modified[t] :
                            ~IsRow(objects[m[1]])
                            \/ objects[m[1]].tid # m[2]}]
    /\ blob_xact' = [i \in DOMAIN blob_xact |->
                        IF blob_xact[i] = t THEN None ELSE blob_xact[i]]
    /\ UNCHANGED <<autovacuum, tid_sequence, vacuum_cur, vac_pc, vac_snapshot>>
    /\ UNCHANGED <<blob_rows, cacheVars, connVars, conflictVars, pubsubVars,
                   extraVars>>

\* abort(): rollback; the hooks of the transaction are dropped and the
\* blob rows it inserted are gone
Abort(t) ==
    /\ txn_status[t] \in {"active", "written", "failed"}
    /\ EndTxn(t)
    /\ LET kept == {i \in DOMAIN blob_rows : blob_xact[i] # t}
       IN  /\ blob_rows' = Pick(blob_rows, kept)
           /\ blob_xact' = Pick(blob_xact, kept)
    /\ ret' = NoRet
    /\ UNCHANGED <<autovacuum, objects, tid_sequence, vq, vacuum_cur, vac_pc,
                   vac_snapshot>>
    /\ UNCHANGED <<cacheVars, connVars, conflictVars, pubsubVars, extraVars>>

\* ------------------------------------------------------------- PGVacuum
\* _initialize(): oid, table_name = await self._queue.get()
WorkerGet ==
    /\ vacuum_cur = None
    /\ vq # <<>>
    /\ vacuum_cur' = Head(vq)
    /\ vq' = Tail(vq)
    /\ ret' = NoRet
    /\ UNCHANGED <<autovacuum, objects, tid_sequence, txn_status, txn_tid, txn_writes,
                   txn_serial, txn_modified, txn_hooks, vac_pc,
                   vac_snapshot>>
    /\ UNCHANGED <<cacheVars, restVars>>

\* the DELETE has to wait for open transactions holding a row it removes,
\* or holding a row that references one
VacuumBlocked(oid) ==
    LET gone == Cascade(objects, {oid})
    IN  \/ \E u \in Txns, o \in AllOids :
              /\ txn_status[u] # "none"
              /\ txn_writes[u][o] # Untouched
              /\ \/ o \in gone
                 \/ /\ IsRow(txn_writes[u][o])
                    /\ References(txn_writes[u][o]) \cap gone # {}
        \/ \E i \in DOMAIN blob_rows : /\ blob_xact[i] # None
                                        /\ blob_rows[i].zoid \in gone

\* _initialize(): await shield(self.vacuum(oid, table_name)); task_done()
WorkerVacuum ==
    /\ vacuum_cur # None
    /\ ~VacuumBlocked(vacuum_cur)
    /\ objects' = DELETE_OBJECT(objects, vacuum_cur)
    /\ LET kept == BlobsKept(objects, blob_rows, vacuum_cur)
       IN  /\ blob_rows' = Pick(blob_rows, kept)
           /\ blob_xact' = Pick(blob_xact, kept)
           /\ ret' = [op |-> "delete_object", oid |-> vacuum_cur,
                      removed |-> {o \in AllOids :
                                     /\ IsRow(objects[o])
                                     /\ ~IsRow(DELETE_OBJECT(objects,
                                                             vacuum_cur)[o])},
                      chunks |-> Len(blob_rows) - Cardinality(kept)]
    /\ vacuum_cur' = None
    /\ UNCHANGED <<autovacuum, tid_sequence, txn_status, txn_tid, txn_writes, txn_serial,
                   txn_modified, txn_hooks, vq, vac_pc,
                   vac_snapshot>>
    /\ UNCHANGED <<cacheVars, connVars, conflictVars, pubsubVars, extraVars>>

\* all the orders in which the rows of S can be fetched
RECURSIVE Orders(_)
Orders(S) ==
    IF S = {} THEN {<<>>}
    ELSE UNION {{<<o>> \o rest : rest \in Orders(S \ {o})} : o \in S}

\* PostgresqlStorage.vacuum(): PGVacuum.run() puts every tombstoned row on
\* the queue
VacuumRun ==
    /\ vac_pc = "idle"
    /\ LET trashed == GET_TRASHED_OBJECTS(objects)
       IN  /\ Len(vq) + Cardinality(trashed) <= MaxQueue
           /\ \E order \in Orders(trashed) : vq' = vq \o order
           /\ vac_snapshot' = trashed
    /\ vac_pc' = "polling"
    /\ ret' = NoRet
    /\ UNCHANGED <<autovacuum, objects, tid_sequence, txn_status, txn_tid, txn_writes,
                   txn_serial, txn_modified, txn_hooks,
                   vacuum_cur>>
    /\ UNCHANGED <<cacheVars, restVars>>

\* PGVacuum.size
size == Len(vq)

\* PostgresqlStorage.vacuum(): while vacuum.size > 0: sleep; then return
VacuumReturn ==
    /\ vac_pc = "polling"
    /\ ~(size > 0)
    /\ vac_pc' = "idle"
    /\ vac_snapshot' = {}
    /\ ret' = [op |-> "vacuum", snapshot |-> vac_snapshot,
               remaining |-> vac_snapshot \cap GET_TRASHED_OBJECTS(objects)]
    /\ UNCHANGED <<objects, tid_sequence, txn_status, txn_tid, txn_writes,
                   txn_serial, txn_modified, txn_hooks, autovacuum, vq,
                   vacuum_cur>>
    /\ UNCHANGED <<cacheVars, restVars>>


\* =====================================================================
\* CacheUtility and PubSubUtility
\* =====================================================================
\* two processes, each with one CacheUtility (identified by its _uid) and
\* one PubSubUtility, sharing the remote driver and the updates channel
Procs == {"A", "B"}
Keys == {"k1"}
Values == {"v1", "v2"}
Absent == "Absent"
\* the relay's channel stream holds at most MaxInbox undelivered messages
MaxInbox == 1

\* CacheUtility._uid
uid(p) == p

\* guillotina.contrib.cache.CACHE_PREFIX + key: the key used on the driver
CACHE_PREFIX == "gcache2-"
Prefixed(key) == <<CACHE_PREFIX, key>>
Unprefixed(key) == <<"", key>>
DriverKeys == {Prefixed(k) : k \in Keys} \cup {Unprefixed(k) : k \in Keys}

\* serialize.dumps / serialize.loads (pickle)
dumps(value) == <<"pickle", value>>
loads(bytes) == bytes[2]

\* the in-process cache: `key in cache`, cache[key], cache.set / cache[key] =
\* value, del cache[key], cache.clear()
Contains(cache, key) == cache[key] # Absent
CacheSet(cache, key, value) == [cache EXCEPT ![key] = value]
CacheDel(cache, key) == [cache EXCEPT ![key] = Absent]
CacheClear(cache) == [k \in Keys |-> Absent]

CacheStart ==
    /\ memory_cache = [p \in Procs |-> [k \in Keys |-> Absent]]
    /\ remote = [d \in DriverKeys |-> Absent]
    /\ ignored_tids = [p \in Procs |-> <<>>]
    /\ subscribers = [p \in Procs |-> {uid(p)}]
    /\ relay = [p \in Procs |-> "running"]
    /\ inbox = [p \in Procs |-> <<>>]

\* CacheUtility.get: what it hands back to the caller
GetReturn(p, key) ==
    IF Contains(memory_cache[p], key) THEN memory_cache[p][key] ELSE None

\* CacheUtility.get(key); fail: the driver call raises
Get(p, key, fail) ==
    /\ fail => obj_driver /\ ~Contains(memory_cache[p], key)
    /\ LET hit == /\ ~Contains(memory_cache[p], key)
                  /\ obj_driver
                  /\ ~fail
                  /\ remote[Prefixed(key)] # Absent
       IN  /\ memory_cache' =
                IF hit
                THEN [memory_cache EXCEPT
                        ![p] = CacheSet(@, key, loads(remote[Prefixed(key)]))]
                ELSE memory_cache
           /\ ret' = [op |-> "get", proc |-> p, key |-> key,
                      local |-> memory_cache[p][key],
                      remote_hit |-> hit,
                      result |-> GetReturn(p, key),
                      raised |-> FALSE]
    /\ UNCHANGED <<remote, obj_driver, ignored_tids, subscribers, relay, inbox>>
    /\ UNCHANGED <<storeVars, restVars>>

\* CacheUtility.set(key, value)
Set(p, key, value, fail) ==
    /\ fail => obj_driver
    /\ memory_cache' = [memory_cache EXCEPT ![p] = CacheSet(@, key, value)]
    /\ remote' = IF obj_driver /\ ~fail
                 THEN [remote EXCEPT ![Prefixed(key)] = dumps(value)]
                 ELSE remote
    /\ ret' = [op |-> "set", proc |-> p, key |-> key, raised |-> FALSE]
    /\ UNCHANGED <<obj_driver, ignored_tids, subscribers, relay, inbox>>
    /\ UNCHANGED <<storeVars, restVars>>

\* CacheUtility.delete_all(keys): no try / except around the driver call
DeleteAllRaises(keys, fail) == keys # {} /\ obj_driver /\ fail

DeleteAll(p, keys, fail) ==
    /\ fail => obj_driver /\ keys # {}
    /\ memory_cache' = [memory_cache EXCEPT
                          ![p] = [k \in Keys |-> IF k \in keys THEN Absent
                                                              ELSE @[k]]]
    /\ remote' = IF keys # {} /\ obj_driver /\ ~fail
                 THEN [d \in DriverKeys |->
                         IF d \in {Prefixed(k) : k \in keys} THEN Absent
                                                              ELSE remote[d]]
                 ELSE remote
    /\ ret' = [op |-> "delete_all", proc |-> p, keys |-> keys,
               raised |-> DeleteAllRaises(keys, fail)]
    /\ UNCHANGED <<obj_driver, ignored_tids, subscribers, relay, inbox>>
    /\ UNCHANGED <<storeVars, restVars>>

\* CacheUtility.delete(key): the driver is asked to delete `key`, without
\* CACHE_PREFIX; with no driver the AttributeError is caught and logged
CacheDelete(p, key, fail) ==
    /\ fail => obj_driver
    /\ memory_cache' = [memory_cache EXCEPT ![p] = CacheDel(@, key)]
    /\ remote' = IF obj_driver /\ ~fail
                 THEN [remote EXCEPT ![Unprefixed(key)] = Absent]
                 ELSE remote
    /\ ret' = [op |-> "delete", proc |-> p, key |-> key, failed |-> fail,
               raised |-> FALSE]
    /\ UNCHANGED <<obj_driver, ignored_tids, subscribers, relay, inbox>>
    /\ UNCHANGED <<storeVars, restVars>>

\* CacheUtility.clear()
Clear(p, fail) ==
    /\ fail => obj_driver
    /\ memory_cache' = [memory_cache EXCEPT ![p] = CacheClear(@)]
    /\ remote' = IF obj_driver /\ ~fail
                 THEN [d \in DriverKeys |-> Absent]
                 ELSE remote
    /\ ret' = [op |-> "clear", proc |-> p, raised |-> FALSE]
    /\ UNCHANGED <<obj_driver, ignored_tids, subscribers, relay, inbox>>
    /\ UNCHANGED <<storeVars, restVars>>

\* ----------------------------------------------------- PubSubUtility
\* the push maps a writer sends along: cache key -> value, at most one key
PushMaps == UNION {[D -> Values] : D \in {E \in SUBSET Keys : Cardinality(E) <= 1}}

\* publish(): pickle.dumps({'ruid': rid, 'data': data})
Envelope(rid, data) == dumps([ruid |-> rid, data |-> data])

\* CacheUtility.send_invalidation: the data it publishes
InvalidationData(keys_to_publish, push) ==
    [keys |-> keys_to_publish, push |-> push]

\* the driver hands a published message to every subscribed channel stream
Subscribed(q) == relay[q] = "running"

\* CacheUtility.send_invalidation -> PubSubUtility.publish
SendInvalidation(p, keys_to_publish, push) ==
    /\ \A q \in Procs : Subscribed(q) => Len(inbox[q]) < MaxInbox
    /\ inbox' = [q \in Procs |->
                   IF Subscribed(q)
                   THEN Append(inbox[q],
                               Envelope(uid(p),
                                        InvalidationData(keys_to_publish, push)))
                   ELSE inbox[q]]
    /\ ret' = [op |-> "send_invalidation", proc |-> p]
    /\ UNCHANGED <<memory_cache, remote, obj_driver, ignored_tids,
                   subscribers, relay>>
    /\ UNCHANGED <<storeVars, restVars>>

\* while len(self._ignored_tids) > 100
IgnoredTidsLimit == 100

Trim(tids) ==
    IF Len(tids) > IgnoredTidsLimit
    THEN SubSeq(tids, Len(tids) - IgnoredTidsLimit + 1, Len(tids))
    ELSE tids

\* list.remove(x): drops the first occurrence
RECURSIVE RemoveFirst(_, _)
RemoveFirst(seq, x) ==
    IF seq = <<>> THEN <<>>
    ELSE IF Head(seq) = x THEN Tail(seq)
    ELSE <<Head(seq)>> \o RemoveFirst(Tail(seq), x)

Range(seq) == {seq[i] : i \in DOMAIN seq}

\* CacheUtility.invalidate(data=...): the cache state it leaves, and whether
\* it raises (the asserts on 'tid' and 'keys')
Invalidate(p, data) ==
    IF ~("tid" \in DOMAIN data /\ "keys" \in DOMAIN data)
    THEN [raised |-> TRUE, cache |-> memory_cache[p], tids |-> ignored_tids[p]]
    ELSE IF data.tid \in Range(ignored_tids[p])
    THEN [raised |-> FALSE, cache |-> memory_cache[p],
          tids |-> RemoveFirst(ignored_tids[p], data.tid)]
    ELSE LET push == IF "push" \in DOMAIN data THEN data.push ELSE <<>>
             evicted == [k \in Keys |-> IF k \in data.keys THEN Absent
                                        ELSE memory_cache[p][k]]
             pushed == [k \in Keys |-> IF k \in DOMAIN push THEN push[k]
                                       ELSE evicted[k]]
         IN  [raised |-> FALSE, cache |-> pushed,
              tids |-> Trim(ignored_tids[p])]

ShouldDispatch_all(ruid, req) == TRUE

\* real_subscribe: if data.get('ruid') != req
ShouldDispatch(ruid, req) == ruid # req

\* real_subscribe: one message of the channel stream is decoded and
\* dispatched to the callbacks; an exception of a callback ends the task
\* (except Exception: log; finally: driver.unsubscribe)
Relay(q) ==
    /\ relay[q] = "running"
    /\ inbox[q] # <<>>
    /\ LET env == loads(Head(inbox[q]))
           invoked == \E req \in subscribers[q] : ShouldDispatch(env.ruid, req)
           res == Invalidate(q, env.data)
       IN  /\ memory_cache' = IF invoked
                              THEN [memory_cache EXCEPT ![q] = res.cache]
                              ELSE memory_cache
           /\ ignored_tids' = IF invoked
                              THEN [ignored_tids EXCEPT ![q] = res.tids]
                              ELSE ignored_tids
           /\ relay' = IF invoked /\ res.raised
                       THEN [relay EXCEPT ![q] = "done"]
                       ELSE relay
           /\ inbox' = IF invoked /\ res.raised
                       THEN [inbox EXCEPT ![q] = <<>>]
                       ELSE [inbox EXCEPT ![q] = Tail(@)]
           /\ ret' = [op |-> "relay", proc |-> q, origin |-> env.ruid,
                      keys |-> env.data.keys, push |-> env.data.push,
                      invoked |-> invoked,
                      raised |-> invoked /\ res.raised]
    /\ UNCHANGED <<remote, obj_driver, subscribers>>
    /\ UNCHANGED <<storeVars, restVars>>

\* the database after initialize() and a first transaction (tid 1) that
\* created the root container and one document in it
FirstDoc == "o1"

StoreStart ==
    /\ objects = [o \in AllOids |->
                    IF o = TRASHED_ID THEN TrashRow
                    ELSE IF o = ROOT THEN MkRow(1, None, None, Pickled(1))
                    ELSE IF o = FirstDoc THEN MkRow(1, ROOT, "x", Pickled(1))
                    ELSE NoRow]
    /\ tid_sequence = 1
    /\ txn_status = [t \in Txns |-> "none"]
    /\ txn_tid = [t \in Txns |-> 0]
    /\ txn_writes = [t \in Txns |-> NoWrites]
    /\ txn_serial = [t \in Txns |-> [o \in OIDs |-> NoSerial]]
    /\ txn_modified = [t \in Txns |-> {}]
    /\ txn_hooks = [t \in Txns |-> <<>>]
    /\ vq = <<>>
    /\ vacuum_cur = None
    /\ vac_pc = "idle"
    /\ vac_snapshot = {}
    /\ ret = NoRet

BlobStart ==
    /\ blob_rows = <<>>
    /\ blob_xact = <<>>

ConnStart ==
    /\ pool_gen = 0
    /\ stmt_gen = 0
    /\ conn_ok = TRUE
    /\ delay_elapsed = FALSE
    /\ drawn = <<>>

ConflictStart ==
    /\ cf_table = <<>>
    /\ cf_tid = 0
    /\ cf_modified = {}

\* one PubSubUtility with its channels, the requester ids that subscribe
\* and the origins of the messages
Channels == {"c1", "c2"}
Rids == {"r1", "r2"}
Origins == Rids \cup {"r3"}
\* at most MaxTasks relay tasks are ever created
MaxTasks == 3
TaskIds == 1 .. MaxTasks
\* _tasks has no entry for the channel
NoTask == 0

\* PubSubUtility.__init__: no subscriber, no task
PubSubStart ==
    /\ ps_chans = {}
    /\ ps_subs = [c \in Channels |-> <<>>]
    /\ ps_tasks = [c \in Channels |-> NoTask]
    /\ ps_task = [k \in TaskIds |-> [channel |-> None, state |-> "unborn"]]
    /\ ps_driver = {}
    /\ ps_pending = {}

\* the state of the parts a specification does not exercise
\* PGVacuum.__init__ and PGConnectionManager.initialize: an empty queue,
\* the consumer task waiting on it, the pool open
VacItems == {"o1", "o2"}

LifeStart ==
    /\ pv_queue = <<>>
    /\ pv_unfinished = 0
    /\ pv_closed = FALSE
    /\ pv_loop = "get"
    /\ pv_inner = None
    /\ pv_fin = "idle"
    /\ pv_timeout = FALSE
    /\ pv_pool = "open"
    /\ pv_table = VacItems

\* the coroutines that use one transaction at the same time
Callers == {"a", "b"}

Idle == [pc |-> "idle", op |-> None]

\* Transaction.__init__: self._lock = asyncio.Lock(); nothing is running
LockStart ==
    /\ lk_holder = [t \in Txns |-> None]
    /\ lk_call = [t \in Txns |-> [c \in Callers |-> Idle]]

\* the operations that run at the same time on one storage
Operations == {"op1", "op2", "op3"}

ReconnStart ==
    /\ rc_task = [k \in Operations |-> "idle"]
    /\ rc_lock = None

\* at most MaxFutures registrations are made in the task
MaxFutures == 3
\* the functions registered, numbered in the order of their registration
FutIds == 1 .. MaxFutures
\* the default scope of after_request and the scope of
\* after_request_failed
Scopes == {"", "failed"}

\* a task that has registered nothing: task_vars.futures is None
FutStart ==
    /\ fu_ctx = FALSE
    /\ fu_keys = {}
    /\ fu_reg = [scope \in Scopes |-> <<>>]
    /\ fu_cb = FALSE
    /\ fu_started = [k \in FutIds |-> 0]
    /\ fu_count = 0
    /\ fu_task = "running"

RestStart ==
    /\ BlobStart
    /\ ConnStart
    /\ ConflictStart
    /\ PubSubStart
    /\ LifeStart
    /\ LockStart
    /\ ReconnStart
    /\ FutStart

\* ------------------------------------------------------ specification
Init ==
    /\ StoreStart
    /\ autovacuum \in BOOLEAN
    /\ CacheStart
    /\ obj_driver = TRUE
    /\ RestStart

Next ==
    \/ \E t \in Txns : Begin(t)
    \/ \E t \in Txns, oid \in Stored : Load(t, oid)
    \/ \E t \in Txns, oid \in Stored, new_marker \in BOOLEAN,
          parent_id \in OIDs, id \in Names :
          Store(t, oid, new_marker, parent_id, id, None)
    \/ \E t \in Txns, oid \in Stored : Delete(t, oid)
    \/ \E t \in Txns : Commit(t)
    \/ \E t \in Txns : Abort(t)
    \/ WorkerGet
    \/ WorkerVacuum
    \/ VacuumRun
    \/ VacuumReturn

Spec == Init /\ [][Next]_vars

\* =====================================================================
\* Properties of the object store (checked under Spec)
\* =====================================================================

\* the store that has just completed presented a stale expected tid
StaleStore ==
    /\ ret.op = "store"
    /\ IsRow(ret.before)
    /\ ret.old_serial # NoSerial
    /\ ret.before.tid # ret.old_serial

\* C1: a store on an existing record whose expected tid differs from the
\* tid stored on the record raises TIDConflictError and leaves the record
\* (tid, state, parent_id, id) as it was, for the transaction and in the
\* committed table.
C1_StaleStoreConflicts ==
    StaleStore =>
        /\ ret.err = "TIDConflictError"
        /\ View(ret.txn)[ret.oid] = ret.before
        /\ objects[ret.oid] = ret.before

C1_Witness ==
    /\ StaleStore
    /\ ret.err = "TIDConflictError"
    /\ ret.row.parent_id = ret.before.parent_id

\* C2: no lost update. Every committed update replaces exactly the version
\* its writer loaded, two open transactions never both hold a successful
\* update of the same record, and the store that loses fails with
\* TIDConflictError while the record holds the winner's tid and state.
C2_NoLostUpdate ==
    /\ ret.op = "commit" => ret.lost = {}
    /\ \A t, u \in Txns : \A m \in txn_modified[t], n \in txn_modified[u] :
          (t # u) => m[1] # n[1]
    /\ (ret.op = "store" /\ ret.update /\ ret.err = None) =>
          /\ IsRow(ret.before)
          /\ ret.before.tid = ret.old_serial
    /\ StaleStore =>
          /\ ret.err = "TIDConflictError"
          /\ objects[ret.oid].state = Pickled(objects[ret.oid].tid)

\* both transactions loaded the record at the same tid; the other one
\* committed its store and this one has just been refused
C2_Witness ==
    /\ StaleStore
    /\ ret.err = "TIDConflictError"
    /\ ret.before.tid > ret.old_serial
    /\ ret.before.tid # txn_tid[ret.txn]
    /\ ret.before.state = Pickled(ret.before.tid)
    /\ objects[ret.oid] = ret.before

\* the store that has just completed was the insert of a new child whose
\* (parent_id, id) is that of another, non-trashed record
SiblingCollision ==
    /\ ret.op = "store"
    /\ ~ret.update
    /\ ret.before = NoRow
    /\ ret.row.parent_id # TRASHED_ID
    /\ ret.row.parent_id # ret.oid
    /\ \E o2 \in AllOids \ {ret.oid} :
          /\ IsRow(objects[o2])
          /\ objects[o2].parent_id = ret.row.parent_id
          /\ objects[o2].id = ret.row.id
          /\ View(ret.txn)[o2] = objects[o2]

DeletedVisible ==
    /\ ret.op = "delete"
    /\ IsRow(ret.before)
    /\ ret.before.parent_id \notin {None, TRASHED_ID}

\* after it, the deleting transaction no longer finds the record under its
\* former parent, while the row is still in the table, under the tombstone
DeleteHides ==
    DeletedVisible =>
        LET v == View(ret.txn)
            p == ret.before.parent_id
            n == ret.before.id
        IN  /\ ret.oid \notin GET_CHILD(v, p, n)
            /\ n \notin GET_CHILDREN_KEYS(v, p)
            /\ ret.oid \notin GET_CHILDREN(v, p)
            /\ ret.oid \notin GET_CHILDREN_BATCH(v, p, {n})
            /\ IsRow(v[ret.oid])
            /\ ret.oid \in GET_TRASHED_OBJECTS(v)

C5_VacuumRemovesAll ==
    ret.op = "vacuum" => ret.remaining = {}

\* the database refused the row of the store that has just completed
\* because its parent_id references no row
DanglingStore ==
    /\ ret.op = "store"
    /\ ret.outcome = "fk"
    /\ ~IsRow(View(ret.txn)[ret.row.parent_id])

\* the database refused it because of the (parent_id, id) index
CollidingStore ==
    /\ ret.op = "store"
    /\ ret.outcome = "unique"

InitCache ==
    /\ StoreStart
    /\ autovacuum = TRUE
    /\ CacheStart
    /\ obj_driver \in BOOLEAN
    /\ RestStart

NextCache ==
    \/ \E p \in Procs, key \in Keys, fail \in BOOLEAN : Get(p, key, fail)
    \/ \E p \in Procs, key \in Keys, value \in Values, fail \in BOOLEAN :
          Set(p, key, value, fail)
    \/ \E p \in Procs, keys \in SUBSET Keys, fail \in BOOLEAN :
          DeleteAll(p, keys, fail)
    \/ \E p \in Procs, key \in Keys, fail \in BOOLEAN : CacheDelete(p, key, fail)
    \/ \E p \in Procs, fail \in BOOLEAN : Clear(p, fail)
    \/ \E p \in Procs, keys \in SUBSET Keys, push \in PushMaps :
          SendInvalidation(p, keys, push)
    \/ \E q \in Procs : Relay(q)

SpecCache == InitCache /\ [][NextCache]_vars

\* the oids a step appends to the vacuum queue
Enqueued ==
    IF Len(vq') > Len(vq)
    THEN {vq'[i] : i \in Len(vq) + 1 .. Len(vq')}
    ELSE {}

\* the rows transaction t has re-parented under the tombstone
TombstonedBy(t) ==
    {o \in Stored : /\ IsRow(txn_writes[t][o])
                    /\ txn_writes[t][o].parent_id = TRASHED_ID}

\* C17: delete itself leaves the vacuum queue, the item being vacuumed and
\* the committed rows as they are; an oid enters the queue only when the
\* transaction that registered it commits (its after-commit hooks, which
\* with autovacuum cover every row it tombstoned) or when vacuum() collects
\* committed tombstones; an abort enqueues nothing.
C17_EnqueueOnlyAfterCommit ==
    [][ /\ ret'.op = "delete"
            => /\ vq' = vq
               /\ vacuum_cur' = vacuum_cur
               /\ objects' = objects
        /\ Len(vq') > Len(vq)
            => \/ /\ ret'.op = "commit"
                  /\ vq' = vq \o txn_hooks[ret'.txn]
               \/ /\ ret'.op # "commit"
                  /\ vac_pc = "idle" /\ vac_pc' = "polling"
                  /\ Enqueued \subseteq GET_TRASHED_OBJECTS(objects)
        /\ (ret'.op = "commit" /\ autovacuum)
            => \A o \in TombstonedBy(ret'.txn) : o \in Range(vq')
        /\ \A t \in Txns :
              (txn_hooks[t] # <<>> /\ txn_hooks'[t] = <<>>
                  /\ ret'.op # "commit") => vq' = vq
      ]_vars

\* a transaction that deleted a document has committed and the document's
\* oid is on the queue, its row still in the table
C17_Witness ==
    /\ ret.op = "commit"
    /\ autovacuum
    /\ \E i \in DOMAIN vq : /\ IsRow(objects[vq[i]])
                            /\ objects[vq[i]].parent_id = TRASHED_ID

\* =====================================================================
\* Properties of the cache and the invalidation bus (checked under
\* SpecCache)
\* =====================================================================

\* the relay of a process has just handled a message published by another
\* process
PeerMessageHandled ==
    /\ ret.op = "relay"
    /\ ret.origin # uid(ret.proc)

\* C7: once the invalidation that process A published for k (after its
\* set(k, v)) has been delivered to process B, B's local tier holds for k
\* either the pushed value or nothing (so that get(k) re-reads the remote
\* tier): B's next get(k) never returns a value B cached earlier.
C7_PeerCoherence ==
    PeerMessageHandled =>
        \A k \in ret.keys :
            IF k \in DOMAIN ret.push
            THEN GetReturn(ret.proc, k) = ret.push[k]
            ELSE ~Contains(memory_cache[ret.proc], k)

\* C8: the message a CacheUtility published itself, relayed back to its own
\* process, is not dispatched to its invalidate callback: its local entries
\* are neither removed nor overwritten, its ignored tids are untouched and
\* its relay keeps running.
C8_NoSelfInvalidation ==
    [][ \A p \in Procs :
          (ret'.op = "relay" /\ ret'.proc = p /\ ret'.origin = uid(p))
          => /\ memory_cache'[p] = memory_cache[p]
             /\ ignored_tids'[p] = ignored_tids[p]
             /\ relay'[p] = "running"
             /\ ~ret'.invoked
      ]_vars

\* a process holds a local entry for k and has just been handed its own
\* invalidation naming k
C8_Witness ==
    /\ ret.op = "relay"
    /\ ret.origin = uid(ret.proc)
    /\ \E k \in ret.keys : Contains(memory_cache[ret.proc], k)

\* C9: none of get, set, delete, delete_all and clear lets an exception
\* reach the caller, whether the remote driver raises or is not configured.
C9_NoExceptionEscapes ==
    ret.op \in {"get", "set", "delete", "delete_all", "clear"}
        => ~ret.raised

\* C10: get(key) returns the local value on a local hit; on a local miss
\* with a value in the remote tier it returns that value, deserialized, and
\* the local cache holds it afterwards; with the key in neither tier it
\* returns nothing.
C10_GetReadThrough ==
    ret.op = "get" =>
        /\ ret.local # Absent => ret.result = ret.local
        /\ ret.remote_hit =>
              /\ Contains(memory_cache[ret.proc], ret.key)
              /\ memory_cache[ret.proc][ret.key]
                    = loads(remote[Prefixed(ret.key)])
              /\ ret.result = memory_cache[ret.proc][ret.key]
        /\ (ret.local = Absent /\ ~ret.remote_hit) => ret.result = None

\* C11: with a remote driver configured and answering, delete(k), and
\* likewise delete_all([k]), leaves no entry for k in the local cache nor
\* in the remote tier (where set stored it under CACHE_PREFIX + k), so that
\* the following gets of k find nothing.
C11_DeleteRemovesBothTiers ==
    /\ (ret.op = "delete" /\ obj_driver /\ ~ret.failed)
          => /\ ~Contains(memory_cache[ret.proc], ret.key)
             /\ remote[Prefixed(ret.key)] = Absent
    /\ (ret.op = "delete_all" /\ obj_driver /\ ~ret.raised)
          => \A k \in ret.keys :
                /\ ~Contains(memory_cache[ret.proc], k)
                /\ remote[Prefixed(k)] = Absent

\* =====================================================================
\* Blob chunks (one transaction writing and reading the blobs table)
\* =====================================================================
\* the blobs table holds at most MaxBlobRows rows
MaxBlobRows == 3

BlobIds == {"b1", "b2"}
ChunkIndexes == {0, 1}
ChunkData == {"d1", "d2"}
\* the transaction that writes and reads the chunks
BlobTxn == "t1"

\* the statements register_sql knows; conn.cursor / conn.fetch take the
\* text of a statement as their first argument
RegisteredSql == {"HAS_OBJECT", "INSERT_BLOB_CHUNK", "READ_BLOB_CHUNK",
                  "DELETE_BLOB"}

\* write_blob_chunk: INSERT INTO objects (zoid, tid, ...) VALUES ($1, -1,
\* 0, 0, TRUE, 'stub')
StubRow == MkRow(-1, None, None, None)

\* register_sql('HAS_OBJECT')
HAS_OBJECT_never(view, oid) == FALSE

HAS_OBJECT(view, oid) == IsRow(view[oid])

\* register_sql('INSERT_BLOB_CHUNK')
INSERT_BLOB_CHUNK(rows, bid, oid, chunk_index, data) ==
    Append(rows, [bid |-> bid, zoid |-> oid, chunk_index |-> chunk_index,
                  data |-> data])

\* register_sql('READ_BLOB_CHUNK'): the rows WHERE bid = $1 AND
\* chunk_index = $2
READ_BLOB_CHUNK(rows, bid, chunk) ==
    {rows[i] : i \in {j \in DOMAIN rows : /\ rows[j].bid = bid
                                          /\ rows[j].chunk_index = chunk}}

\* register_sql('DELETE_BLOB')
DELETE_BLOB(rows, bid) == SelectSeq(rows, LAMBDA r : r.bid # bid)

\* the server rejects a statement text that is not SQL
PostgresSyntaxError(query) == query \notin RegisteredSql

\* write_blob_chunk(txn, bid, oid, chunk_index, data)
WriteBlobChunk(t, bid, oid, chunk_index, data) ==
    /\ txn_status[t] = "active"
    /\ Len(blob_rows) < MaxBlobRows
    /\ ~Locked(t, oid)
    /\ txn_writes' = IF HAS_OBJECT(View(t), oid)
                     THEN txn_writes
                     ELSE [txn_writes EXCEPT ![t][oid] = StubRow]
    /\ blob_rows' = INSERT_BLOB_CHUNK(blob_rows, bid, oid, chunk_index, data)
    /\ blob_xact' = Append(blob_xact, t)
    /\ ret' = [op |-> "write_blob_chunk", bid |-> bid, oid |-> oid,
               chunk_index |-> chunk_index, data |-> data]
    /\ UNCHANGED <<objects, tid_sequence, txn_status, txn_tid, txn_serial,
                   txn_modified, txn_hooks, autovacuum, vq, vacuum_cur,
                   vac_pc, vac_snapshot>>
    /\ UNCHANGED <<cacheVars, connVars, conflictVars, pubsubVars, extraVars>>

\* read_blob_chunk(txn, bid, chunk): get_one_row gives the first row of the
\* result (any matching row, the statement has no ORDER BY), or None
ReadBlobChunk(t, bid, chunk) ==
    /\ txn_status[t] = "active"
    /\ LET found == READ_BLOB_CHUNK(blob_rows, bid, chunk)
       IN  \E record \in (IF found = {} THEN {NoRow} ELSE found) :
              ret' = [op |-> "read_blob_chunk", bid |-> bid,
                      chunk |-> chunk, record |-> record]
    /\ UNCHANGED <<storeVars, cacheVars, restVars>>

\* read_blob_chunks(txn, bid): `async for record in conn.cursor(bid)`; the
\* blob id is handed to cursor() as the statement text
ReadBlobChunks(t, bid) ==
    /\ txn_status[t] = "active"
    /\ ret' = [op |-> "read_blob_chunks", bid |-> bid,
               raised |-> PostgresSyntaxError(bid),
               chunks |-> <<>>]
    /\ UNCHANGED <<storeVars, cacheVars, restVars>>

\* del_blob(txn, bid)
DelBlob(t, bid) ==
    /\ txn_status[t] = "active"
    /\ blob_rows' = DELETE_BLOB(blob_rows, bid)
    /\ blob_xact' = Pick(blob_xact, {i \in DOMAIN blob_rows :
                                        blob_rows[i].bid # bid})
    /\ ret' = [op |-> "del_blob", bid |-> bid]
    /\ UNCHANGED <<storeVars, cacheVars, connVars, conflictVars, pubsubVars, extraVars>>

\* transaction BlobTxn has been started on the initial database
InitBlob ==
    /\ objects = [o \in AllOids |->
                    IF o = TRASHED_ID THEN TrashRow
                    ELSE IF o = ROOT THEN MkRow(1, None, None, Pickled(1))
                    ELSE IF o = FirstDoc THEN MkRow(1, ROOT, "x", Pickled(1))
                    ELSE NoRow]
    /\ tid_sequence = 2
    /\ txn_status = [t \in Txns |-> IF t = BlobTxn THEN "active" ELSE "none"]
    /\ txn_tid = [t \in Txns |-> IF t = BlobTxn THEN 2 ELSE 0]
    /\ txn_writes = [t \in Txns |-> NoWrites]
    /\ txn_serial = [t \in Txns |-> [o \in OIDs |-> NoSerial]]
    /\ txn_modified = [t \in Txns |-> {}]
    /\ txn_hooks = [t \in Txns |-> <<>>]
    /\ autovacuum = TRUE
    /\ vq = <<>>
    /\ vacuum_cur = None
    /\ vac_pc = "idle"
    /\ vac_snapshot = {}
    /\ ret = NoRet
    /\ CacheStart
    /\ obj_driver = TRUE
    /\ RestStart

NextBlob ==
    \/ \E bid \in BlobIds, oid \in Stored, chunk_index \in ChunkIndexes,
          data \in ChunkData :
          WriteBlobChunk(BlobTxn, bid, oid, chunk_index, data)
    \/ \E bid \in BlobIds, chunk \in ChunkIndexes :
          ReadBlobChunk(BlobTxn, bid, chunk)
    \/ \E bid \in BlobIds : ReadBlobChunks(BlobTxn, bid)
    \/ \E bid \in BlobIds : DelBlob(BlobTxn, bid)

SpecBlob == InitBlob /\ [][NextBlob]_vars

\* the rows of blob bid
ChunksOf(bid) == SelectSeq(blob_rows, LAMBDA r : r.bid = bid)

\* blob bid was written as chunks 0 .. N-1, each once
WrittenInFull(bid) ==
    LET N == Len(ChunksOf(bid))
    IN  \A i \in 0 .. N - 1 :
           Cardinality(READ_BLOB_CHUNK(blob_rows, bid, i)) = 1

\* the data written for blob bid, by chunk index
WrittenData(bid) ==
    [i \in 1 .. Len(ChunksOf(bid)) |->
        (CHOOSE r \in READ_BLOB_CHUNK(blob_rows, bid, i - 1) : TRUE).data]

\* C12: once the chunks 0 .. N-1 of a blob were written, read_blob_chunk
\* gives for each index the row written for it, and iterating
\* read_blob_chunks yields the written data in the written order.
C12_BlobRoundTrip ==
    /\ (ret.op = "read_blob_chunk" /\ WrittenInFull(ret.bid)
           /\ ret.chunk < Len(ChunksOf(ret.bid)))
          => /\ IsRow(ret.record)
             /\ ret.record.bid = ret.bid
             /\ ret.record.chunk_index = ret.chunk
             /\ ret.record.data = WrittenData(ret.bid)[ret.chunk + 1]
    /\ (ret.op = "read_blob_chunks" /\ WrittenInFull(ret.bid))
          => /\ ~ret.raised
             /\ ret.chunks = WrittenData(ret.bid)

\* the part of C12 about read_blob_chunk alone
BlobChunkReadBack ==
    (ret.op = "read_blob_chunk" /\ WrittenInFull(ret.bid)
        /\ ret.chunk < Len(ChunksOf(ret.bid)))
       => /\ IsRow(ret.record)
          /\ ret.record.data = WrittenData(ret.bid)[ret.chunk + 1]

\* =====================================================================
\* Connection loss and the TID sequence
\* =====================================================================
\* the pool is rebuilt at most MaxRestarts times
MaxRestarts == 2

\* what asyncpg raises on a lost connection, and an InterfaceError that is
\* not about a lost connection
ConnectionErrors ==
    {[class |-> "InterfaceError", msg |-> "connection is closed"],
     [class |-> "InterfaceError", msg |-> "pool is closed"],
     [class |-> "ConnectionDoesNotExistError",
      msg |-> "connection was closed in the middle of operation"],
     [class |-> "InterfaceError",
      msg |-> "another operation is in progress"]}

\* restart_conn_on_exception: except (PostgresConnectionError,
\* InterfaceError); ConnectionDoesNotExistError is a PostgresConnectionError
Caught(ex) == ex.class \in {"InterfaceError", "ConnectionDoesNotExistError"}

\* _check_bad_connection: `err in str(ex)` for 'connection is closed',
\* 'pool is closed', 'connection was closed'
Recognized(ex) ==
    ex.msg \in {"connection is closed", "pool is closed",
                "connection was closed in the middle of operation"}

\* _check_bad_connection: (time.time() - self._connection_initialized_on)
\* > BAD_CONNECTION_RESTART_DELAY
RestartDue_always(elapsed) == TRUE

RestartDue(elapsed) == elapsed

\* the methods carrying @restart_conn_on_exception
Decorated(op) ==
    op \in {"open", "get_next_tid", "get_current_tid",
            "_async_db_transaction_factory"}

\* the other methods of the storage that use a connection
UndecoratedOps == {"load", "store", "delete", "get_child",
                   "write_blob_chunk", "read_blob_chunk"}

\* decorator + _check_bad_connection + restart_connection: does the failed
\* call end in a restart
Restarts(op, ex) ==
    Decorated(op) /\ Caught(ex) /\ Recognized(ex) /\ RestartDue(delay_elapsed)

\* store(): except InterfaceError: 'another operation is in progress'
\* becomes a ConflictError
StoreConflict(op, ex) ==
    /\ op = "store"
    /\ ex.class = "InterfaceError"
    /\ ex.msg = "another operation is in progress"

\* what the caller of a failed call receives
Raised(op, ex) ==
    IF Restarts(op, ex) \/ StoreConflict(op, ex) THEN "ConflictError"
    ELSE ex.class

\* PGConnectionManager.restart + initialize_tid_statements +
\* _connection_initialized_on = time.time(), when the call restarts
Recover(op, ex) ==
    IF Restarts(op, ex)
    THEN /\ pool_gen' = pool_gen + 1
         /\ stmt_gen' = pool_gen + 1
         /\ conn_ok' = TRUE
         /\ delay_elapsed' = FALSE
    ELSE UNCHANGED <<pool_gen, stmt_gen, conn_ok, delay_elapsed>>

\* the outcome of a call that failed with ex
Failure(op, ex) ==
    [op |-> op, ex |-> ex, due |-> delay_elapsed, pool_before |-> pool_gen,
     err |-> Raised(op, ex), result |-> 0]

Success(op, result) ==
    [op |-> op, ex |-> None, due |-> delay_elapsed, pool_before |-> pool_gen,
     err |-> None, result |-> result]

\* NEXT_TID: SELECT nextval('tid_sequence')
NEXT_TID_stuck(seq) == seq

NEXT_TID(seq) == seq + 1

\* MAX_TID: SELECT last_value FROM tid_sequence
MAX_TID(seq) == seq

\* get_next_tid(txn)
GetNextTid(ex) ==
    /\ IF conn_ok
       THEN /\ tid_sequence < MaxTid
            /\ tid_sequence' = NEXT_TID(tid_sequence)
            /\ drawn' = Append(drawn, NEXT_TID(tid_sequence))
            /\ ret' = Success("get_next_tid", NEXT_TID(tid_sequence))
            /\ UNCHANGED <<pool_gen, stmt_gen, conn_ok, delay_elapsed>>
       ELSE /\ Recover("get_next_tid", ex)
            /\ ret' = Failure("get_next_tid", ex)
            /\ UNCHANGED <<tid_sequence, drawn>>
    /\ UNCHANGED <<objects, txn_status, txn_tid, txn_writes, txn_serial,
                   txn_modified, txn_hooks, autovacuum, vq, vacuum_cur,
                   vac_pc, vac_snapshot>>
    /\ UNCHANGED <<cacheVars, blobVars, conflictVars, pubsubVars, extraVars>>

\* get_current_tid(txn)
GetCurrentTid(ex) ==
    /\ IF conn_ok
       THEN /\ ret' = Success("get_current_tid", MAX_TID(tid_sequence))
            /\ UNCHANGED <<pool_gen, stmt_gen, conn_ok, delay_elapsed>>
       ELSE /\ Recover("get_current_tid", ex)
            /\ ret' = Failure("get_current_tid", ex)
    /\ UNCHANGED drawn
    /\ UNCHANGED <<storeVars, cacheVars, blobVars, conflictVars, pubsubVars, extraVars>>

\* open(): pool.acquire
Open(ex) ==
    /\ IF conn_ok
       THEN /\ ret' = Success("open", 0)
            /\ UNCHANGED <<pool_gen, stmt_gen, conn_ok, delay_elapsed>>
       ELSE /\ Recover("open", ex)
            /\ ret' = Failure("open", ex)
    /\ UNCHANGED drawn
    /\ UNCHANGED <<storeVars, cacheVars, blobVars, conflictVars, pubsubVars, extraVars>>

\* load, store, delete, get_child, write_blob_chunk, read_blob_chunk on a
\* connection: the statement runs, or the error of the lost connection
\* reaches the caller
StorageCall(op, ex) ==
    /\ IF conn_ok
       THEN /\ ret' = Success(op, 0)
            /\ UNCHANGED <<pool_gen, stmt_gen, conn_ok, delay_elapsed>>
       ELSE /\ Recover(op, ex)
            /\ ret' = Failure(op, ex)
    /\ UNCHANGED drawn
    /\ UNCHANGED <<storeVars, cacheVars, blobVars, conflictVars, pubsubVars, extraVars>>

\* the server or the network drops the connections of the pool
LoseConnection ==
    /\ conn_ok
    /\ pool_gen < MaxRestarts
    /\ conn_ok' = FALSE
    /\ ret' = NoRet
    /\ UNCHANGED <<pool_gen, stmt_gen, delay_elapsed, drawn>>
    /\ UNCHANGED <<storeVars, cacheVars, blobVars, conflictVars, pubsubVars, extraVars>>

\* BAD_CONNECTION_RESTART_DELAY passes since the connection was initialized
DelayElapses ==
    /\ ~delay_elapsed
    /\ delay_elapsed' = TRUE
    /\ ret' = NoRet
    /\ UNCHANGED <<pool_gen, stmt_gen, conn_ok, drawn>>
    /\ UNCHANGED <<storeVars, cacheVars, blobVars, conflictVars, pubsubVars, extraVars>>

NextConn ==
    \/ \E ex \in ConnectionErrors : GetNextTid(ex)
    \/ \E ex \in ConnectionErrors : GetCurrentTid(ex)
    \/ \E ex \in ConnectionErrors : Open(ex)
    \/ \E op \in UndecoratedOps, ex \in ConnectionErrors : StorageCall(op, ex)
    \/ LoseConnection
    \/ DelayElapses

SpecConn == Init /\ [][NextConn]_vars

\* =====================================================================
\* get_conflicts
\* =====================================================================
\* tids of the rows and of the calling transaction are at most MaxScanTid
MaxScanTid == 3

\* get_conflicts: if len(txn.modified) < 1000
ConflictsOidLimit == 1000

\* the objects that have a row; the other OIDs only occur in txn.modified
ScanRowOids == {1, 1000, 1001}

\* the sets of modified OIDs the scan is called with: none, a few, 999 and
\* 1000 of them
ModifiedSets == {{}, {1}, {1, 1000}, 1 .. 999, 2 .. 1000, 1 .. 1000,
                 2 .. 1001}

\* register_sql('TXN_CONFLICTS'): ... WHERE tid > $1
TXN_CONFLICTS(tbl, tid) ==
    {[zoid |-> o, tid |-> tbl[o]] : o \in {x \in DOMAIN tbl : tbl[x] > tid}}

\* register_sql('TXN_CONFLICTS_ON_OIDS'): ... WHERE tid > $1 AND
\* zoid = ANY($2)
TXN_CONFLICTS_ON_OIDS_unrestricted(tbl, tid, modified_oids) ==
    TXN_CONFLICTS(tbl, tid)

TXN_CONFLICTS_ON_OIDS(tbl, tid, modified_oids) ==
    {r \in TXN_CONFLICTS(tbl, tid) : r.zoid \in modified_oids}

\* get_conflicts(txn): what it returns
get_conflicts(tbl, tid, modified) ==
    IF Cardinality(modified) = 0 THEN {}
    ELSE IF Cardinality(modified) < ConflictsOidLimit
    THEN TXN_CONFLICTS_ON_OIDS(tbl, tid, modified)
    ELSE TXN_CONFLICTS(tbl, tid)

GetConflicts ==
    /\ ret' = [op |-> "get_conflicts",
               result |-> get_conflicts(cf_table, cf_tid, cf_modified)]
    /\ UNCHANGED <<storeVars, cacheVars, restVars>>

\* another transaction commits a row version of object o under tid
OtherCommit(o, tid) ==
    /\ o \in DOMAIN cf_table => cf_table[o] < tid
    /\ cf_table' = [x \in DOMAIN cf_table \cup {o} |->
                      IF x = o THEN tid ELSE cf_table[x]]
    /\ ret' = NoRet
    /\ UNCHANGED <<cf_tid, cf_modified>>
    /\ UNCHANGED <<storeVars, cacheVars, blobVars, connVars, pubsubVars, extraVars>>

InitConflicts ==
    /\ StoreStart
    /\ autovacuum = TRUE
    /\ CacheStart
    /\ obj_driver = TRUE
    /\ BlobStart
    /\ ConnStart
    /\ PubSubStart
    /\ LifeStart
    /\ LockStart
    /\ ReconnStart
    /\ FutStart
    /\ \E D \in SUBSET ScanRowOids : cf_table \in [D -> 1 .. MaxScanTid]
    /\ cf_tid \in 1 .. MaxScanTid
    /\ cf_modified \in ModifiedSets

NextConflicts ==
    \/ GetConflicts
    \/ \E o \in ScanRowOids, tid \in 1 .. MaxScanTid : OtherCommit(o, tid)

SpecConflicts == InitConflicts /\ [][NextConflicts]_vars

\* =====================================================================
\* Properties of connection recovery and of the TID sequence (checked
\* under SpecConn)
\* =====================================================================

\* the call that just completed failed with a recognized connection-loss
\* error
LostConnection ==
    /\ ret.op \in {"open", "get_next_tid", "get_current_tid"} \cup UndecoratedOps
    /\ ret.err # None
    /\ Recognized(ret.ex)

\* the pool and the read connection were rebuilt, the TID statements
\* prepared again on the new read connection, and the caller got a
\* ConflictError
Recovered ==
    /\ ret.err = "ConflictError"
    /\ pool_gen = ret.pool_before + 1
    /\ stmt_gen = pool_gen
    /\ conn_ok

\* the original error reached the caller and nothing was rebuilt
NotRecovered ==
    /\ ret.err = ret.ex.class
    /\ pool_gen = ret.pool_before
    /\ ~conn_ok

C14_EveryOperationCovered ==
    (LostConnection /\ ret.due) => Recovered

\* C15: every value get_next_tid returns is strictly greater than every
\* value returned before it (so no value is returned twice), also across
\* reconnections; get_current_tid returns the latest drawn value and leaves
\* the sequence where it was.
C15_MonotonicTid ==
    [][ /\ (ret'.op = "get_next_tid" /\ ret'.err = None)
            => /\ \A i \in DOMAIN drawn : drawn[i] < ret'.result
               /\ ret'.result > tid_sequence
        /\ (ret'.op = "get_current_tid" /\ ret'.err = None)
            => /\ tid_sequence' = tid_sequence
               /\ drawn' = drawn
               /\ drawn # <<>> => ret'.result = drawn[Len(drawn)]
      ]_vars

\* get_current_tid answered after two draws, one of them on a rebuilt pool
C15_Witness ==
    /\ ret.op = "get_current_tid"
    /\ ret.err = None
    /\ Len(drawn) >= 2
    /\ pool_gen > 0

\* =====================================================================
\* Properties of get_conflicts (checked under SpecConflicts)
\* =====================================================================

\* the committed rows whose tid is greater than the transaction's
NewerRows ==
    {[zoid |-> o, tid |-> cf_table[o]] :
        o \in {x \in DOMAIN cf_table : cf_table[x] > cf_tid}}

\* C16: get_conflicts returns nothing when the transaction modified
\* nothing; with fewer than 1000 modified OIDs exactly the rows of modified
\* OIDs whose tid is greater than the transaction's; with 1000 or more,
\* every row whose tid is greater than the transaction's.
C16_ConflictScan ==
    ret.op = "get_conflicts" =>
        /\ cf_modified = {} => ret.result = {}
        /\ (cf_modified # {} /\ Cardinality(cf_modified) < 1000)
              => ret.result = {r \in NewerRows : r.zoid \in cf_modified}
        /\ Cardinality(cf_modified) >= 1000 => ret.result = NewerRows

\* 999 OIDs were modified and a newer row of an unmodified object is left
\* out of the result
C16_Witness ==
    /\ ret.op = "get_conflicts"
    /\ Cardinality(cf_modified) = 999
    /\ ret.result # {}
    /\ ret.result # NewerRows

\* =====================================================================
\* PubSubUtility: subscribe, unsubscribe, publish and the relay tasks
\* =====================================================================
\* bytes that pickle.loads rejects
Garbage == <<"junk", "junk">>

\* real_subscribe: pickle.loads(msg) does not raise
Unpickles(msg) == msg[1] = "pickle"

\* the relay task of channel c that reads the channel stream, if any
Relaying(c) == {k \in TaskIds : /\ ps_task[k].channel = c
                                /\ ps_task[k].state = "running"}

\* the next task asyncio.ensure_future creates
NewTask == CHOOSE k \in TaskIds :
              /\ ps_task[k].state = "unborn"
              /\ \A j \in TaskIds : j < k => ps_task[j].state # "unborn"

\* dict assignment: a new key goes last, an existing key keeps its place
DictSet(keys, k) == IF k \in Range(keys) THEN keys ELSE Append(keys, k)

\* del dict[key]
DictDel(keys, k) == SelectSeq(keys, LAMBDA x : x # k)

\* subscribe(): if channel_name in self._subscribers (add to the table)
\* else (create the table and the relay task)
StartsTask_always(chans, c) == TRUE

StartsTask(chans, c) == c \notin chans

\* subscribe(channel_name, rid, callback)
Subscribe(c, rid) ==
    /\ StartsTask(ps_chans, c) =>
          \E k \in TaskIds : ps_task[k].state = "unborn"
    /\ ps_subs' = [ps_subs EXCEPT ![c] = DictSet(@, rid)]
    /\ ps_chans' = ps_chans \cup {c}
    /\ IF StartsTask(ps_chans, c)
       THEN /\ ps_task' = [ps_task EXCEPT
                              ![NewTask] = [channel |-> c,
                                            state |-> "starting"]]
            /\ ps_tasks' = [ps_tasks EXCEPT ![c] = NewTask]
       ELSE UNCHANGED <<ps_task, ps_tasks>>
    /\ ret' = [op |-> "subscribe", channel |-> c, rid |-> rid,
               started |-> StartsTask(ps_chans, c)]
    /\ UNCHANGED <<ps_driver, ps_pending>>
    /\ UNCHANGED <<storeVars, cacheVars, blobVars, connVars, conflictVars, extraVars>>

\* task.cancel(): a task that has not run yet never runs; a running one
\* gets CancelledError and goes through its handlers
Cancel(task) ==
    IF task.state = "starting" THEN [task EXCEPT !.state = "done"]
    ELSE IF task.state = "running" THEN [task EXCEPT !.state = "cancelling"]
    ELSE task

\* unsubscribe(): if len(self._subscribers[channel_name]) == 0
IsLast(rids) == Len(rids) = 0

\* unsubscribe(channel_name, req_id), up to its return or to its await of
\* driver.unsubscribe; self._tasks[channel_name] raises KeyError when the
\* entry is gone
Unsubscribe(c, rid) ==
    /\ LET known == c \in ps_chans
           left == IF known THEN DictDel(ps_subs[c], rid) ELSE ps_subs[c]
           last == known /\ IsLast(left)
           raised == last /\ ps_tasks[c] = NoTask
       IN  /\ ps_subs' = [ps_subs EXCEPT ![c] = left]
           /\ IF last /\ ~raised
              THEN /\ ps_task' = [ps_task EXCEPT ![ps_tasks[c]] = Cancel(@)]
                   /\ ps_tasks' = [ps_tasks EXCEPT ![c] = NoTask]
                   /\ ps_pending' = ps_pending \cup {c}
              ELSE UNCHANGED <<ps_task, ps_tasks, ps_pending>>
           /\ ret' = [op |-> "unsubscribe", channel |-> c, rid |-> rid,
                      last |-> last, raised |-> raised]
    /\ UNCHANGED <<ps_chans, ps_driver>>
    /\ UNCHANGED <<storeVars, cacheVars, blobVars, connVars, conflictVars, extraVars>>

\* unsubscribe(), after the await: the driver has dropped the channel, then
\* del self._subscribers[channel_name]
UnsubscribeResume(c) ==
    /\ c \in ps_pending
    /\ ps_pending' = ps_pending \ {c}
    /\ ps_driver' = ps_driver \ {c}
    /\ ps_chans' = ps_chans \ {c}
    /\ ps_subs' = [ps_subs EXCEPT ![c] = <<>>]
    /\ ret' = [op |-> "unsubscribed", channel |-> c,
               dropped |-> Range(ps_subs[c])]
    /\ UNCHANGED <<ps_tasks, ps_task>>
    /\ UNCHANGED <<storeVars, cacheVars, blobVars, connVars, conflictVars, extraVars>>

\* real_subscribe: channel = await self._driver.subscribe(channel_name)
RelayStart(k) ==
    /\ ps_task[k].state = "starting"
    /\ ps_task' = [ps_task EXCEPT ![k].state = "running"]
    /\ ps_driver' = ps_driver \cup {ps_task[k].channel}
    /\ ret' = NoRet
    /\ UNCHANGED <<ps_chans, ps_subs, ps_tasks, ps_pending>>
    /\ UNCHANGED <<storeVars, cacheVars, blobVars, connVars, conflictVars, extraVars>>

\* real_subscribe: except asyncio.CancelledError; finally:
\* driver.unsubscribe(channel_name)
RelayCancelled(k) ==
    /\ ps_task[k].state = "cancelling"
    /\ ps_task' = [ps_task EXCEPT ![k].state = "done"]
    /\ ps_driver' = ps_driver \ {ps_task[k].channel}
    /\ ret' = NoRet
    /\ UNCHANGED <<ps_chans, ps_subs, ps_tasks, ps_pending>>
    /\ UNCHANGED <<storeVars, cacheVars, blobVars, connVars, conflictVars, extraVars>>

\* real_subscribe: for req, callback in self._subscribers[channel].items():
\* if data.get('ruid') != req: await callback(...); the requester ids whose
\* callback gets called, in dict order, when those of `raising` raise
RECURSIVE Dispatch(_, _, _)
Dispatch(reqs, ruid, raising) ==
    IF reqs = <<>> THEN [invoked |-> <<>>, raised |-> FALSE]
    ELSE IF ~ShouldDispatch(ruid, Head(reqs))
    THEN Dispatch(Tail(reqs), ruid, raising)
    ELSE IF Head(reqs) \in raising
    THEN [invoked |-> <<Head(reqs)>>, raised |-> TRUE]
    ELSE LET rest == Dispatch(Tail(reqs), ruid, raising)
         IN  [invoked |-> <<Head(reqs)>> \o rest.invoked,
              raised |-> rest.raised]

\* real_subscribe: the stream yields a message somebody published on the
\* channel (publish(): the pickled envelope {'ruid', 'data'}; Garbage:
\* bytes that are no pickle); an exception of a callback ends the task
\* (except Exception; finally: driver.unsubscribe)
PubSubRelay(c, msg, raising) ==
    /\ Relaying(c) # {}
    /\ c \in ps_driver
    /\ LET k == CHOOSE x \in Relaying(c) : TRUE
       IN  IF ~Unpickles(msg)
           THEN /\ raising = {}
                /\ ret' = [op |-> "ps_relay", channel |-> c,
                           wellformed |-> FALSE, origin |-> None,
                           invoked |-> <<>>, raised |-> FALSE]
                /\ UNCHANGED <<ps_task, ps_driver>>
           ELSE LET data == loads(msg)
                    res == Dispatch(ps_subs[c], data.ruid, raising)
                IN  /\ raising \subseteq Range(ps_subs[c]) \ {data.ruid}
                    /\ ps_task' = IF res.raised
                                  THEN [ps_task EXCEPT ![k].state = "done"]
                                  ELSE ps_task
                    /\ ps_driver' = IF res.raised THEN ps_driver \ {c}
                                    ELSE ps_driver
                    /\ ret' = [op |-> "ps_relay", channel |-> c,
                               wellformed |-> TRUE, origin |-> data.ruid,
                               invoked |-> res.invoked,
                               raised |-> res.raised]
    /\ UNCHANGED <<ps_chans, ps_subs, ps_tasks, ps_pending>>
    /\ UNCHANGED <<storeVars, cacheVars, blobVars, connVars, conflictVars, extraVars>>

InitPubSub ==
    /\ StoreStart
    /\ autovacuum = TRUE
    /\ CacheStart
    /\ obj_driver = TRUE
    /\ RestStart

NextPubSub ==
    \/ \E c \in Channels, rid \in Rids : Subscribe(c, rid)
    \/ \E c \in Channels, rid \in Rids : Unsubscribe(c, rid)
    \/ \E c \in Channels : UnsubscribeResume(c)
    \/ \E k \in TaskIds : RelayStart(k)
    \/ \E k \in TaskIds : RelayCancelled(k)
    \/ \E c \in Channels, origin \in Origins, raising \in SUBSET Rids :
          PubSubRelay(c, Envelope(origin, "d"), raising)
    \/ \E c \in Channels : PubSubRelay(c, Garbage, {})

SpecPubSub == InitPubSub /\ [][NextPubSub]_vars

\* =====================================================================
\* Properties of PubSubUtility (checked under SpecPubSub)
\* =====================================================================

\* C18: for a well-formed message received on a channel, the callbacks
\* invoked are exactly those registered on the channel whose requester id
\* differs from the message's origin id, each once; a callback whose
\* requester id equals the origin id is not invoked.
C18_DispatchToOthers ==
    (ret.op = "ps_relay" /\ ret.wellformed)
        => ret.invoked = SelectSeq(ps_subs[ret.channel],
                                   LAMBDA req : req # ret.origin)

\* the relay tasks of channel c that can read its stream, now or once they
\* have started
RelayTasks(c) ==
    {k \in TaskIds : /\ ps_task[k].channel = c
                     /\ ps_task[k].state \in {"starting", "running"}}

\* C19: no channel ever has more than one relay task; a subscribe that
\* starts a task found no local subscriber on the channel, and a subscribe
\* on a channel that has subscribers only adds to the callback table.
C19_OneRelayPerChannel ==
    [][ /\ \A c \in Channels :
              Cardinality({k \in TaskIds :
                              /\ ps_task'[k].channel = c
                              /\ ps_task'[k].state \in {"starting",
                                                        "running"}}) <= 1
        /\ (ret'.op = "subscribe" /\ ret'.started)
              => /\ ps_subs[ret'.channel] = <<>>
                 /\ RelayTasks(ret'.channel) = {}
        /\ (ret'.op = "subscribe" /\ ps_subs[ret'.channel] # <<>>)
              => /\ ~ret'.started
                 /\ ps_task' = ps_task
                 /\ ps_tasks' = ps_tasks
                 /\ ps_subs'[ret'.channel]
                       = DictSet(ps_subs[ret'.channel], ret'.rid)
      ]_vars

\* a second subscriber has joined a channel whose relay task is running
C19_Witness ==
    /\ ret.op = "subscribe"
    /\ ~ret.started
    /\ Len(ps_subs[ret.channel]) = 2
    /\ \E k \in TaskIds : /\ ps_task[k].channel = ret.channel
                          /\ ps_task[k].state = "running"
    /\ \E k \in TaskIds : ps_task[k].state = "done"

\* C20: unsubscribe(channel, rid) removes no callback but rid's: when it
\* completes after unsubscribing the channel from the driver, it takes no
\* other subscriber off the channel.
C20_UnsubscribeRemovesOnlyRid ==
    ret.op = "unsubscribed" => ret.dropped = {}

\* =====================================================================
\* CacheUtility: the ignored-tids list (guillotina/contrib/cache/utility.py)
\* =====================================================================

\* the longest ignored-tids list explored
MaxIgnored == 102

\* the process whose list is followed, and the tids it meets: its own
\* transaction's tid (1) and a peer's (2)
IgnoringProc == "A"
SeenTids == {1, 2}

\* the payloads handed to invalidate: with a tid, and the one
\* send_invalidation publishes
InvalidatePayloads ==
    {[tid |-> t, keys |-> ks, push |-> push] :
        t \in SeenTids, ks \in SUBSET Keys, push \in PushMaps}
    \cup {InvalidationData(ks, push) : ks \in SUBSET Keys, push \in PushMaps}

\* CacheUtility.ignore_tid(tid): self._ignored_tids.append(tid)
IgnoreTid(p, tid) ==
    /\ Len(ignored_tids[p]) < MaxIgnored
    /\ ignored_tids' = [ignored_tids EXCEPT ![p] = Append(@, tid)]
    /\ ret' = [op |-> "ignore_tid", proc |-> p, tid |-> tid]
    /\ UNCHANGED <<memory_cache, remote, obj_driver, subscribers, relay, inbox>>
    /\ UNCHANGED <<storeVars, restVars>>

\* CacheUtility.invalidate(data=data), called with a decoded payload
InvalidateCall(p, data) ==
    /\ LET res == Invalidate(p, data)
       IN  /\ memory_cache' = [memory_cache EXCEPT ![p] = res.cache]
           /\ ignored_tids' = [ignored_tids EXCEPT ![p] = res.tids]
           /\ ret' = [op |-> "invalidate", proc |-> p, raised |-> res.raised,
                      has_tid |-> "tid" \in DOMAIN data]
    /\ UNCHANGED <<remote, obj_driver, subscribers, relay, inbox>>
    /\ UNCHANGED <<storeVars, restVars>>

InitIgnored ==
    /\ StoreStart
    /\ autovacuum = TRUE
    /\ CacheStart
    /\ obj_driver = TRUE
    /\ RestStart

NextIgnored ==
    \/ IgnoreTid(IgnoringProc, 1)
    \/ \E data \in InvalidatePayloads : InvalidateCall(IgnoringProc, data)

SpecIgnored == InitIgnored /\ [][NextIgnored]_vars

\* C21: after each ignore_tid or invalidate call the ignored-tids list of
\* the process holds at most 100 entries.
C21_IgnoredTidsBounded ==
    ret.op \in {"ignore_tid", "invalidate"}
        => Len(ignored_tids[ret.proc]) <= IgnoredTidsLimit

\* =====================================================================
\* PGVacuum life cycle: add_to_queue, the consumer loop, finalize and
\* PGConnectionManager.close (guillotina/db/storages/pg.py)
\* =====================================================================

\* the longest vacuum queue explored
MaxVacQueue == 2

otherVars == <<storeVars, cacheVars, blobVars, connVars, conflictVars,
               pubsubVars, futVars>>

\* add_to_queue: if self._closed: raise Exception('Closing down')
add_to_queue_raises_never(closed) == FALSE

add_to_queue_raises(closed) == closed

\* add_to_queue(oid, table_name); Queue.put counts the item as unfinished
AddToQueue(oid) ==
    /\ pv_fin \in {"idle", "joining", "returned"}
    /\ Len(pv_queue) < MaxVacQueue
    /\ LET raised == add_to_queue_raises(pv_closed)
       IN  /\ pv_queue' = IF raised THEN pv_queue ELSE Append(pv_queue, oid)
           /\ pv_unfinished' = IF raised THEN pv_unfinished
                               ELSE pv_unfinished + 1
           /\ ret' = [op |-> "add_to_queue", oid |-> oid, raised |-> raised]
    /\ UNCHANGED <<pv_closed, pv_loop, pv_inner, pv_fin, pv_timeout, pv_pool,
                   pv_table>>
    /\ UNCHANGED <<otherVars, lockVars, reconnVars>>

\* _initialize(): oid, table_name = await self._queue.get(); then
\* shield(self.vacuum(oid, table_name)) starts the inner task
LoopGet ==
    /\ pv_loop = "get"
    /\ pv_queue # <<>>
    /\ pv_inner = None
    /\ pv_inner' = Head(pv_queue)
    /\ pv_queue' = Tail(pv_queue)
    /\ pv_loop' = "shield"
    /\ ret' = NoRet
    /\ UNCHANGED <<pv_unfinished, pv_closed, pv_fin, pv_timeout, pv_pool,
                   pv_table>>
    /\ UNCHANGED <<otherVars, lockVars, reconnVars>>

\* Queue.task_done(): ValueError (swallowed) when nothing is unfinished
task_done(unfinished) == IF unfinished > 0 THEN unfinished - 1 ELSE unfinished

\* _initialize(): while not self._closed, tested after every item
AfterItem_stops(closed) == "ended"

AfterItem(closed) == IF closed THEN "ended" ELSE "get"

\* the log.warning calls: vacuum() logs an error of conn.execute itself;
\* an error of pool.acquire leaves vacuum() and is logged by _initialize()
\* when the loop still awaits the inner task
Logged(error, awaited) ==
    \/ error \in {"query", "terminated"}
    \/ error = "acquire" /\ awaited

\* the inner vacuum(oid) ends, with no error (None), an error of
\* conn.execute ("query", or "terminated" when the pool was terminated
\* under it) or of pool.acquire ("acquire"); when the loop
\* still awaits it, the loop runs its finally (task_done) and tests
\* `while not self._closed`
InnerEnds(deleted, error) ==
    /\ pv_table' = IF deleted THEN pv_table \ {pv_inner} ELSE pv_table
    /\ pv_inner' = None
    /\ IF pv_loop = "shield"
       THEN /\ pv_unfinished' = task_done(pv_unfinished)
            /\ pv_loop' = AfterItem(pv_closed)
       ELSE UNCHANGED <<pv_unfinished, pv_loop>>
    /\ ret' = [op |-> "vacuumed", oid |-> pv_inner,
               orphaned |-> pv_loop = "ended", deleted |-> deleted,
               pool |-> pv_pool, error |-> error,
               logged |-> Logged(error, pv_loop = "shield")]
    /\ UNCHANGED <<pv_queue, pv_closed, pv_fin, pv_timeout, pv_pool>>
    /\ UNCHANGED <<otherVars, lockVars, reconnVars>>

\* vacuum(): conn.execute(DELETE_OBJECT, oid) returns
DeleteCompletes ==
    /\ pv_inner # None
    /\ pv_pool = "open"
    /\ InnerEnds(TRUE, None)

\* the ways the delete of one item fails while the pool is open
DeleteErrors == {"query", "acquire"}

\* vacuum(): pool.acquire raises (timeout), or conn.execute raises and
\* the row stays
DeleteFails(error) ==
    /\ pv_inner # None
    /\ pv_pool = "open"
    /\ InnerEnds(FALSE, error)

\* vacuum(): the pool was terminated under conn.execute; the statement
\* raises (except Exception: log) and the server may or may not have run it
DeleteInterrupted ==
    /\ pv_inner # None
    /\ pv_pool = "terminated"
    /\ \E deleted \in BOOLEAN : InnerEnds(deleted, "terminated")

\* finalize(): self._closed = True, then wait_for(self._queue.join(), 2)
Finalize ==
    /\ pv_fin = "idle"
    /\ pv_closed' = TRUE
    /\ pv_fin' = "joining"
    /\ ret' = NoRet
    /\ UNCHANGED <<pv_queue, pv_unfinished, pv_loop, pv_inner, pv_timeout,
                   pv_pool, pv_table>>
    /\ UNCHANGED <<otherVars, lockVars, reconnVars>>

\* the 2 seconds of wait_for pass
FinalizeTimeout ==
    /\ pv_fin = "joining"
    /\ ~pv_timeout
    /\ pv_timeout' = TRUE
    /\ ret' = NoRet
    /\ UNCHANGED <<pv_queue, pv_unfinished, pv_closed, pv_loop, pv_inner,
                   pv_fin, pv_pool, pv_table>>
    /\ UNCHANGED <<otherVars, lockVars, reconnVars>>

\* Queue.join() is over when no put item is unfinished
join_done(unfinished) == unfinished = 0

\* finalize() returns: join() finished, or asyncio.TimeoutError was caught
FinalizeReturn ==
    /\ pv_fin = "joining"
    /\ join_done(pv_unfinished) \/ pv_timeout
    /\ pv_fin' = "returned"
    /\ ret' = [op |-> "finalize", unfinished |-> pv_unfinished,
               timed_out |-> pv_timeout]
    /\ UNCHANGED <<pv_queue, pv_unfinished, pv_closed, pv_loop, pv_inner,
                   pv_timeout, pv_pool, pv_table>>
    /\ UNCHANGED <<otherVars, lockVars, reconnVars>>

\* await shield(self.vacuum(...)): the cancellation of the awaiting task
\* does not reach the inner task
shield_transparent(inner) == None

shield(inner) == inner

\* close(): self._vacuum_task.cancel(); the loop gets CancelledError at its
\* await, runs its finally (task_done) and initialize() returns
CloseCancel ==
    /\ pv_fin = "returned"
    /\ pv_fin' = "cancelled"
    /\ pv_inner' = IF pv_loop = "shield" THEN shield(pv_inner) ELSE pv_inner
    /\ pv_loop' = "ended"
    /\ pv_unfinished' = IF pv_loop = "ended" THEN pv_unfinished
                        ELSE task_done(pv_unfinished)
    /\ ret' = [op |-> "cancel", in_flight |-> pv_inner]
    /\ UNCHANGED <<pv_queue, pv_closed, pv_timeout, pv_pool, pv_table>>
    /\ UNCHANGED <<otherVars, lockVars, reconnVars>>

\* close(): await shield(pool.release(read_conn)); self._pool.terminate()
CloseTerminate ==
    /\ pv_fin = "cancelled"
    /\ pv_fin' = "closed"
    /\ pv_pool' = "terminated"
    /\ ret' = NoRet
    /\ UNCHANGED <<pv_queue, pv_unfinished, pv_closed, pv_loop, pv_inner,
                   pv_timeout, pv_table>>
    /\ UNCHANGED <<otherVars, lockVars, reconnVars>>

InitLife ==
    /\ StoreStart
    /\ autovacuum = TRUE
    /\ CacheStart
    /\ obj_driver = TRUE
    /\ RestStart

NextLife ==
    \/ \E oid \in VacItems : AddToQueue(oid)
    \/ LoopGet
    \/ DeleteCompletes
    \/ \E error \in DeleteErrors : DeleteFails(error)
    \/ DeleteInterrupted
    \/ Finalize
    \/ FinalizeTimeout
    \/ FinalizeReturn
    \/ CloseCancel
    \/ CloseTerminate

SpecLife == InitLife /\ [][NextLife]_vars

\* C22: once finalize has been called, add_to_queue raises and leaves the
\* queue as it was; finalize returns only when no queued work is
\* outstanding or its timeout has elapsed, and is free to return in either
\* case.
C22_FinalizeStopsIntake ==
    [][ /\ (ret'.op = "add_to_queue" /\ pv_closed)
            => /\ ret'.raised
               /\ pv_queue' = pv_queue
               /\ pv_unfinished' = pv_unfinished
        /\ (ret'.op = "add_to_queue" /\ ~pv_closed) => ~ret'.raised
        /\ (pv_fin = "joining" /\ pv_fin' = "returned")
            => \/ pv_unfinished = 0 /\ pv_inner = None /\ pv_queue = <<>>
               \/ pv_timeout
      ]_vars

\* finalize returned without timing out while work had been queued, and an
\* item offered afterwards was turned away
C22_Witness ==
    /\ ret.op = "add_to_queue"
    /\ ret.raised
    /\ pv_fin = "returned"
    /\ ~pv_timeout
    /\ pv_table # VacItems

\* C23 (as stated): a delete that was in flight when the consumer loop was
\* cancelled always ends having removed its row (a statement or a pool
\* acquisition that fails on its own set aside).
C23_OrphanedDeleteCompletes ==
    (ret.op = "vacuumed" /\ ret.orphaned /\ ret.error \notin DeleteErrors)
        => ret.deleted

\* C23 (amended): cancelling the consumer loop leaves a delete in flight
\* untouched; it removes its row unless the pool is terminated under it
\* (or it fails on its own), and a delete ends with its row either removed or wholly in place.
C23_ShieldedDelete ==
    [][ /\ (ret'.op = "cancel" /\ pv_inner # None)
            => pv_inner' = pv_inner /\ pv_table' = pv_table
        /\ (ret'.op = "vacuumed" /\ ret'.orphaned /\ pv_pool = "open"
                /\ ret'.error \notin DeleteErrors)
            => pv_inner \notin pv_table'
        /\ ret'.op = "vacuumed"
            => pv_table' \in {pv_table, pv_table \ {pv_inner}}
      ]_vars

\* the loop was cancelled mid-delete and the delete then removed its row
C23_Witness ==
    /\ ret.op = "vacuumed"
    /\ ret.orphaned
    /\ ret.deleted
    /\ ret.pool = "open"
    /\ pv_fin = "cancelled"

\* =====================================================================
\* Properties of write_blob_chunk (checked under SpecBlob)
\* =====================================================================

LiveSiblingsShareId(tbl) ==
    \E a, b \in AllOids :
        /\ a # b
        /\ IsRow(tbl[a]) /\ IsRow(tbl[b])
        /\ tbl[a].parent_id \notin {None, TRASHED_ID}
        /\ tbl[a].id # None
        /\ tbl[a].parent_id = tbl[b].parent_id
        /\ tbl[a].id = tbl[b].id

TxnOps == {"load", "store", "keys", "get_page_of_keys", "items",
           "read_blob_chunks"}

\* the operations whose query is issued inside `async with txn._lock`
UnderLock(op) ==
    op \notin {"get_page_of_keys", "items", "read_blob_chunks"}

\* the callers whose query is in flight on the connection of t
InFlight(t) == {c \in Callers : lk_call[t][c].pc = "querying"}

\* the operation starts: it waits for txn._lock, or goes straight to the
\* connection; asyncpg raises InterfaceError ('another operation is in
\* progress') when the connection is busy
TxnCall(t, c, op) ==
    /\ lk_call[t][c].pc = "idle"
    /\ IF UnderLock(op)
       THEN /\ lk_call' = [lk_call EXCEPT ![t][c] = [pc |-> "waiting",
                                                    op |-> op]]
            /\ ret' = NoRet
       ELSE /\ lk_call' = IF InFlight(t) = {}
                          THEN [lk_call EXCEPT ![t][c] = [pc |-> "querying",
                                                          op |-> op]]
                          ELSE lk_call
            /\ ret' = [op |-> "query", name |-> op, txn |-> t, caller |-> c,
                       locked |-> lk_holder[t] = c,
                       overlapped |-> InFlight(t) # {}]
    /\ UNCHANGED lk_holder
    /\ UNCHANGED <<otherVars, lifeVars, reconnVars>>

\* async with txn._lock: the lock is free; the query is issued
TxnAcquire(t, c) ==
    /\ lk_call[t][c].pc = "waiting"
    /\ lk_holder[t] = None
    /\ IF InFlight(t) = {}
       THEN /\ lk_holder' = [lk_holder EXCEPT ![t] = c]
            /\ lk_call' = [lk_call EXCEPT ![t][c].pc = "querying"]
       ELSE /\ lk_holder' = lk_holder
            /\ lk_call' = [lk_call EXCEPT ![t][c] = Idle]
    /\ ret' = [op |-> "query", name |-> lk_call[t][c].op, txn |-> t,
               caller |-> c, locked |-> TRUE,
               overlapped |-> InFlight(t) # {}]
    /\ UNCHANGED <<otherVars, lifeVars, reconnVars>>

\* the query returns (the cursor is exhausted); the lock is released
TxnComplete(t, c) ==
    /\ lk_call[t][c].pc = "querying"
    /\ lk_call' = [lk_call EXCEPT ![t][c] = Idle]
    /\ lk_holder' = IF lk_holder[t] = c THEN [lk_holder EXCEPT ![t] = None]
                    ELSE lk_holder
    /\ ret' = NoRet
    /\ UNCHANGED <<otherVars, lifeVars, reconnVars>>

InitLock ==
    /\ StoreStart
    /\ autovacuum = TRUE
    /\ CacheStart
    /\ obj_driver = TRUE
    /\ RestStart

NextLock ==
    \/ \E t \in Txns, c \in Callers, op \in TxnOps : TxnCall(t, c, op)
    \/ \E t \in Txns, c \in Callers : TxnAcquire(t, c)
    \/ \E t \in Txns, c \in Callers : TxnComplete(t, c)

SpecLock == InitLock /\ [][NextLock]_vars

\* C26: every query of a storage operation is issued by a caller that
\* holds the transaction's lock, and never while another query of the same
\* transaction is in flight on its connection.
C26_QueriesUnderTxnLock ==
    ret.op = "query" => ret.locked /\ ~ret.overlapped

\* =====================================================================
\* The invalidation message (checked under SpecCache)
\* =====================================================================

\* C27: every message send_invalidation has published carries the
\* transaction id, the key list and the push map, and the invalidate
\* handler of a peer it is dispatched to accepts it.
C27_MessageCarriesTid ==
    /\ \A q \in Procs : \A i \in DOMAIN inbox[q] :
          {"tid", "keys", "push"} \subseteq DOMAIN loads(inbox[q][i]).data
    /\ (ret.op = "relay" /\ ret.invoked) => ~ret.raised

\* =====================================================================
\* Tombstoned records, the vacuum worker and later stores
\* (checked under Spec)
\* =====================================================================

\* C28: when the vacuum worker runs its DELETE for an oid whose row exists,
\* that row is under the tombstone at that moment.
C28_WorkerDeletesOnlyTombstoned ==
    [][ (vacuum_cur # None /\ vacuum_cur' = None /\ IsRow(objects[vacuum_cur]))
          => objects[vacuum_cur].parent_id = TRASHED_ID
      ]_vars

\* C29: a store that updates a record which a committed delete has put
\* under the tombstone, presenting the tid its transaction loaded before the
\* delete, is rejected: it does not write the record under a live parent.
C29_NoResurrection ==
    (/\ ret.op = "store"
     /\ ret.update
     /\ IsRow(objects[ret.oid])
     /\ objects[ret.oid].parent_id = TRASHED_ID
     /\ ret.row.parent_id # TRASHED_ID)
        => ret.outcome # "ok"

\* =====================================================================
\* Reconnects of concurrent operations
\* (_check_bad_connection, restart_connection, PGConnectionManager.restart)
\* =====================================================================

notConnVars == <<storeVars, cacheVars, blobVars, conflictVars, pubsubVars,
                 lifeVars, lockVars,
                 futVars>>

\* a decorated operation fails on the lost connection with a recognized
\* error; _check_bad_connection tests the elapsed time, then waits for the
\* storage lock; when the time has not elapsed the error is re-raised
OpFails(k) ==
    /\ rc_task[k] = "idle"
    /\ ~conn_ok
    /\ rc_task' = IF RestartDue(delay_elapsed)
                  THEN [rc_task EXCEPT ![k] = "queued"]
                  ELSE rc_task
    /\ ret' = [op |-> "failed", task |-> k, due |-> delay_elapsed]
    /\ UNCHANGED <<rc_lock, connVars>>
    /\ UNCHANGED notConnVars

\* async with self.lock: the lock is acquired and restart_connection
\* starts; the elapsed time is not tested again
RestartBegin(k) ==
    /\ rc_task[k] = "queued"
    /\ rc_lock = None
    /\ rc_lock' = k
    /\ rc_task' = [rc_task EXCEPT ![k] = "restarting"]
    /\ ret' = [op |-> "restart_begin", task |-> k, due |-> delay_elapsed,
               pool_before |-> pool_gen, lost |-> ~conn_ok]
    /\ UNCHANGED connVars
    /\ UNCHANGED notConnVars

\* restart_connection: the pool is rebuilt, the tid statements prepared,
\* _connection_initialized_on = time.time(); ConflictError is raised and
\* the lock released
RestartEnd(k) ==
    /\ rc_lock = k
    /\ rc_lock' = None
    /\ rc_task' = [rc_task EXCEPT ![k] = "idle"]
    /\ pool_gen' = pool_gen + 1
    /\ stmt_gen' = pool_gen + 1
    /\ conn_ok' = TRUE
    /\ delay_elapsed' = FALSE
    /\ ret' = [op |-> "restart_end", task |-> k]
    /\ UNCHANGED drawn
    /\ UNCHANGED notConnVars

NextReconn ==
    \/ \E k \in Operations : OpFails(k)
    \/ \E k \in Operations : RestartBegin(k)
    \/ \E k \in Operations : RestartEnd(k)
    \/ LoseConnection
    \/ DelayElapses

SpecReconn == Init /\ [][NextReconn]_vars

\* C30: no pool rebuild starts before BAD_CONNECTION_RESTART_DELAY has
\* elapsed since the last completed (re)connect, however many operations
\* failed together: the failures of one lost connection cause one rebuild.
C30_ReconnectRateLimited ==
    ret.op = "restart_begin" => ret.due /\ ret.lost


\* =====================================================================
\* PubSubUtility: relay liveness per channel (checked under SpecPubSub)
\* =====================================================================

\* C31: whenever a channel has a registered local subscriber, its relay
\* task is still there to deliver; in particular after the relay has
\* handled a message (malformed, or one whose callback raised), the
\* channel's subscribers still have a relay task.
C31_RelayOutlivesDispatch ==
    ret.op = "ps_relay"
        => (ps_subs[ret.channel] # <<>> => RelayTasks(ret.channel) # {})

\* C32: a subscribe(channel, rid, cb) that completes while the unsubscribe
\* of the channel's last other subscriber is suspended at the driver call
\* leaves rid registered on the channel, with a relay task, once the
\* unsubscribe has finished.
C32_SubscribeDuringUnsubscribe ==
    [][ ret'.op = "unsubscribed"
          => \A rid \in Range(ps_subs[ret'.channel]) :
                /\ rid \in Range(ps_subs'[ret'.channel])
                /\ \E k \in TaskIds :
                      /\ ps_task'[k].channel = ret'.channel
                      /\ ps_task'[k].state \in {"starting", "running"}
      ]_vars


\* =====================================================================
\* PGVacuum: every queued item gets deleted (checked under SpecLifeFair)
\* =====================================================================

\* the event loop runs a task that can run: the consumer takes the next
\* item when it waits on a non-empty queue, and a delete in flight ends
SpecLifeFair ==
    /\ SpecLife
    /\ WF_vars(LoopGet)
    /\ WF_vars(DeleteCompletes)
    /\ WF_vars(DeleteInterrupted)

\* C33: every oid accepted by add_to_queue is eventually physically
\* deleted by the consumer, or a delete of it was tried and failed; this
\* includes the oids still waiting in the queue when finalize is called
\* (in the runs where the two seconds finalize waits for are never used
\* up, so that nothing cuts the consumer short).
C33_QueuedEventuallyDeleted ==
    \A oid \in VacItems :
        [](~pv_timeout)
            => ((oid \in Range(pv_queue))
                    ~> \/ oid \notin pv_table
                       \/ ret.op = "vacuumed" /\ ret.oid = oid
                                              /\ ~ret.deleted)

\* =====================================================================
\* PGVacuum: a failed delete (checked under SpecLife)
\* =====================================================================

C34_TidNeverDecreases ==
    (ret.op = "store" /\ ret.update /\ ret.outcome = "ok")
        => ret.row.tid >= ret.before.tid


\* =====================================================================
\* Referential integrity of the objects and blobs tables
\* =====================================================================

\* what the rows written here refer to: the first document, or nothing
RefTargets == {FirstDoc, None}

\* transactions that store children and annotations, tombstone rows and
\* write blob chunks, and the vacuum consumer deleting what was tombstoned
NextRef ==
    \/ \E t \in Txns : Begin(t)
    \/ \E t \in Txns, oid \in Stored, parent_id \in RefTargets,
          of \in RefTargets :
          Store(t, oid, TRUE, parent_id, "x", of)
    \/ \E t \in Txns, oid \in Stored : Delete(t, oid)
    \/ \E t \in Txns : Commit(t)
    \/ \E t \in Txns : Abort(t)
    \/ WorkerGet
    \/ WorkerVacuum
    \* PRIMARY KEY (bid, zoid, chunk_index): a chunk is written once
    \/ \E t \in Txns, oid \in Stored :
          /\ \A i \in DOMAIN blob_rows : blob_rows[i].zoid # oid
          /\ WriteBlobChunk(t, "b1", oid, 0, "d1")

\* the initial database, with the vacuum consumer enabled
InitRef ==
    /\ StoreStart
    /\ autovacuum = TRUE
    /\ CacheStart
    /\ obj_driver = TRUE
    /\ RestStart

SpecRef == InitRef /\ [][NextRef]_vars

\* every reference of a row of tbl leads to a row of tbl
RowsIntact(tbl) ==
    \A o \in AllOids :
        IsRow(tbl[o]) => \A p \in {tbl[o].parent_id, tbl[o].of} \ {None} :
                            IsRow(tbl[p])

\* the blob rows transaction t sees (all of them when t is None: the
\* committed ones) belong to rows of tbl
BlobsIntact(tbl, t) ==
    \A i \in DOMAIN blob_rows :
        blob_xact[i] \in {None, t} => IsRow(tbl[blob_rows[i].zoid])

\* the committed tables, and the tables as every open transaction sees
\* them, have no dangling reference
Intact ==
    /\ RowsIntact(objects)
    /\ BlobsIntact(objects, None)
    /\ \A t \in Txns :
          txn_status[t] \in {"active", "written"}
              => RowsIntact(View(t)) /\ BlobsIntact(View(t), t)

\* C35: every non-null parent_id and `of` and every blob chunk's zoid
\* refers to an existing object record, in every reachable state; a store
\* naming a missing parent (or a missing `of`) is rejected and writes
\* nothing; the physical delete of a record removes, in the same step, the
\* record with its children, its annotations and the blob chunks of all of
\* them.
C35_ReferentialIntegrity ==
    /\ Intact
    /\ [][ /\ Intact'
           /\ (ret'.op = "store"
                 /\ \E p \in {ret'.row.parent_id, ret'.row.of} \ {None} :
                       ~IsRow(View(ret'.txn)[p]))
               => /\ ret'.outcome # "ok"
                  /\ ret'.err # None
                  /\ txn_writes' = txn_writes
           /\ (vacuum_cur # None /\ vacuum_cur' = None
                 /\ IsRow(objects[vacuum_cur]))
               => /\ ~IsRow(objects'[vacuum_cur])
                  /\ \A o \in AllOids :
                        IsRow(objects'[o])
                            => /\ objects'[o] = objects[o]
                               /\ objects[o].parent_id # vacuum_cur
                               /\ objects[o].of # vacuum_cur
                  /\ \A i \in DOMAIN blob_rows' :
                        blob_rows'[i].zoid # vacuum_cur
                  /\ \A i \in DOMAIN blob_rows :
                        (blob_xact[i] # None
                            \/ IsRow(objects'[blob_rows[i].zoid]))
                          => blob_rows[i] \in Range(blob_rows')
         ]_vars

\* the consumer has just deleted a record together with a record that
\* referred to it and with a blob chunk
C35_Witness ==
    /\ ret.op = "delete_object"
    /\ ret.removed = Stored
    /\ ret.chunks > 0
    /\ blob_rows = <<>>


\* =====================================================================
\* Futures of a task (guillotina/utils/execute.py)
\* =====================================================================

\* the _name argument left at its default, None
NoName == [given |-> FALSE, n |-> 0]

\* the names callers give to prevent duplicates
GivenNames == {[given |-> TRUE, n |-> 1], [given |-> TRUE, n |-> 2]}

\* after_request: if _name is None: _name = uuid.uuid4().hex; a name that
\* no other registration carries
uuid4(count) == [given |-> FALSE, n |-> count]

\* add_future: futures[scope][name] = {'fut': fut, ...}; assigning to a key
\* the dict has replaces the value in place, a new key goes last
DictPut_append(items, name, fut) == Append(items, [name |-> name, fut |-> fut])

DictPut(items, name, fut) ==
    IF \E i \in DOMAIN items : items[i].name = name
    THEN [i \in DOMAIN items |->
             IF items[i].name = name THEN [name |-> name, fut |-> fut]
             ELSE items[i]]
    ELSE Append(items, [name |-> name, fut |-> fut])

\* add_future: the done callback is added by the registration that finds
\* no futures dict on the task, and only when its scope is the default one
AddsCallback(ctx, scope) == ~ctx /\ scope = ""

\* after_request(func, _name=_name, _scope=scope) -> add_future(_name,
\* func, scope=scope); func is the fu_count + 1 st function registered
Register(op, _name, scope) ==
    /\ fu_task = "running"
    /\ fu_count < MaxFutures
    /\ LET name == IF _name = NoName THEN uuid4(fu_count + 1) ELSE _name
           fut == fu_count + 1
       IN  /\ fu_reg' = [fu_reg EXCEPT ![scope] = DictPut(@, name, fut)]
           /\ ret' = [op |-> op, name |-> name, named |-> _name # NoName,
                      scope |-> scope, fut |-> fut]
    /\ fu_ctx' = TRUE
    /\ fu_cb' = (fu_cb \/ AddsCallback(fu_ctx, scope))
    /\ fu_keys' = fu_keys \cup {scope}
    /\ fu_count' = fu_count + 1
    /\ UNCHANGED <<fu_started, fu_task>>
    /\ UNCHANGED <<storeVars, cacheVars, blobVars, connVars, conflictVars,
                   pubsubVars, lifeVars, lockVars, reconnVars>>

\* after_request(func, _name=None, _scope='')
AfterRequest(_name, _scope) ==
    /\ _scope \in Scopes
    /\ Register("after_request", _name, _scope)

\* after_request_failed(func, _name=None): after_request with
\* _scope='failed'
AfterRequestFailed(_name) ==
    /\ "failed" \in Scopes
    /\ Register("after_request_failed", _name, "failed")

\* execute_futures: futures[scope] = {}
Emptied_kept(items) == items

Emptied(items) == <<>>

\* execute_futures: the functions of futures[scope].values(), in order
Found(items) == [i \in DOMAIN items |-> items[i].fut]

\* asyncio.ensure_future(asyncio.gather(*found)): each function of found is
\* started once more
Started(started, found) ==
    [k \in FutIds |->
        started[k] + Cardinality({i \in DOMAIN found : found[i] = k})]

\* execute_futures: return task if len(found) > 0, else None
Returned(found) == IF Len(found) > 0 THEN "task" ELSE None

\* execute_futures(scope), called with no futures argument: it reads
\* task_vars.futures and returns None when the scope is no key of it
ExecuteFutures(scope) ==
    /\ fu_task = "running"
    /\ IF ~fu_ctx \/ scope \notin fu_keys
       THEN /\ ret' = [op |-> "execute_futures", scope |-> scope,
                       found |-> <<>>, result |-> None]
            /\ UNCHANGED <<fu_reg, fu_started>>
       ELSE LET found == Found(fu_reg[scope])
            IN  /\ fu_reg' = [fu_reg EXCEPT ![scope] = Emptied(@)]
                /\ fu_started' = Started(fu_started, found)
                /\ ret' = [op |-> "execute_futures", scope |-> scope,
                           found |-> found, result |-> Returned(found)]
    /\ UNCHANGED <<fu_ctx, fu_keys, fu_cb, fu_count, fu_task>>
    /\ UNCHANGED <<storeVars, cacheVars, blobVars, connVars, conflictVars,
                   pubsubVars, lifeVars, lockVars, reconnVars>>

\* the task finishes; its done callback, if add_future added it, is
\* execute_futures('', futures, task)
TaskDone ==
    /\ fu_task = "running"
    /\ fu_task' = "done"
    /\ IF fu_cb
       THEN LET found == Found(fu_reg[""])
            IN  /\ fu_reg' = [fu_reg EXCEPT ![""] = Emptied(@)]
                /\ fu_started' = Started(fu_started, found)
                /\ ret' = [op |-> "task_done", scope |-> "",
                           found |-> found, result |-> Returned(found)]
       ELSE /\ ret' = [op |-> "task_done", scope |-> "",
                       found |-> <<>>, result |-> None]
            /\ UNCHANGED <<fu_reg, fu_started>>
    /\ UNCHANGED <<fu_ctx, fu_keys, fu_cb, fu_count>>
    /\ UNCHANGED <<storeVars, cacheVars, blobVars, connVars, conflictVars,
                   pubsubVars, lifeVars, lockVars, reconnVars>>

InitFut ==
    /\ StoreStart
    /\ autovacuum = TRUE
    /\ CacheStart
    /\ obj_driver = TRUE
    /\ RestStart

NextFut ==
    \/ \E _name \in GivenNames \cup {NoName} : AfterRequest(_name, "")
    \/ \E _name \in GivenNames \cup {NoName} : AfterRequestFailed(_name)
    \/ \E scope \in Scopes : ExecuteFutures(scope)
    \/ TaskDone

SpecFut == InitFut /\ [][NextFut]_vars

\* C37: every function registered through after_request in a task is
\* executed after that task finishes, whatever the order of the
\* after_request and after_request_failed registrations: once the task is
\* done, no function registered in the default scope is left unstarted.
C37_AfterRequestRuns ==
    fu_task = "done" => fu_reg[""] = <<>>


\* the items of a scope that carry the name
Named(items, name) == {i \in DOMAIN items : items[i].name = name}

\* C38: a registration under a name already used in the same scope
\* replaces the earlier one, so that the scope keeps one registration per
\* name, the last; registrations under other names and in other scopes
\* stay as they were, a registration without a name is added to all those
\* there; and no registered function is started more than once.
C38_NamePreventsDuplicates ==
    [][ /\ ret'.op \in {"after_request", "after_request_failed"}
            => LET before == fu_reg[ret'.scope]
                   after == fu_reg'[ret'.scope]
               IN  /\ Cardinality(Named(after, ret'.name)) = 1
                   /\ \A i \in Named(after, ret'.name) :
                         after[i].fut = ret'.fut
                   /\ {before[i] : i \in DOMAIN before \ Named(before,
                                                             ret'.name)}
                        = {after[i] : i \in DOMAIN after \ Named(after,
                                                             ret'.name)}
                   /\ ~ret'.named => Len(after) = Len(before) + 1
                   /\ \A scope \in Scopes \ {ret'.scope} :
                         fu_reg'[scope] = fu_reg[scope]
        /\ \A k \in FutIds : fu_started'[k] <= 1
      ]_vars

\* two registrations under one name were made in the default scope and
\* only the second is there
C38_Witness ==
    /\ ret.op = "after_request"
    /\ ret.named
    /\ fu_count = 2
    /\ fu_reg[""] = <<[name |-> ret.name, fut |-> 2]>>
    /\ fu_reg["failed"] = <<>>
    /\ \A k \in FutIds : fu_started[k] = 0

\* C39: execute_futures(scope) starts every function registered in the
\* scope, each once, and empties the scope; the other scopes keep their
\* registrations, none of which is started; it returns a task when it
\* started something and None otherwise, in particular when it is called
\* again with no registration in between.
C39_ExecuteFuturesFrame ==
    [][ ret'.op = "execute_futures"
          => LET items == fu_reg[ret'.scope]
             IN  /\ ret'.found = [i \in DOMAIN items |-> items[i].fut]
                 /\ \A k \in FutIds :
                       fu_started'[k]
                          = fu_started[k]
                            + (IF \E i \in DOMAIN items : items[i].fut = k
                               THEN 1 ELSE 0)
                 /\ fu_reg'[ret'.scope] = <<>>
                 /\ \A scope \in Scopes \ {ret'.scope} :
                       fu_reg'[scope] = fu_reg[scope]
                 /\ ret'.result = (IF items = <<>> THEN None ELSE "task")
                 /\ (ret.op = "execute_futures" /\ ret.scope = ret'.scope)
                       => /\ ret'.result = None
                          /\ fu_started' = fu_started
      ]_vars

\* two functions of one scope were started while the other scope kept
\* its registration
C39_Witness ==
    /\ ret.op = "execute_futures"
    /\ Len(ret.found) = 2
    /\ ret.result = "task"
    /\ fu_reg[ret.scope] = <<>>
    /\ \E scope \in Scopes : fu_reg[scope] # <<>>
    /\ \A k \in FutIds : fu_started[k] = (IF k \in Range(ret.found) THEN 1
                                          ELSE 0)
====
